---- MODULE Spec2Model ----
(***************************************************************************)
(* Model of the Gitty puzzle engine: GitEngine (src/src/lib/gitEngine.ts)  *)
(* driven by the useGame hook (src/src/hooks/useGame.ts).                  *)
(*                                                                         *)
(* A graph is the record [commits, branches, headRef, isDetached].         *)
(* commits is a sequence of Commit records in the iteration order of the   *)
(* Map; branches is a function from the existing branch names to Branch    *)
(* records.  Timestamps, dates and colours have no effect on behaviour and *)
(* are left out; result messages are cut down to their fixed text, without *)
(* the names and hashes the source interpolates into them.                 *)
(*                                                                         *)
(* graph and files are the two fields of the GitEngine object the hook     *)
(* holds, changed by a call at once.  puzzle and gameState are the React   *)
(* state of the last render, which is what the hook's callbacks read;      *)
(* pending is the queue of state updates the calls made since then have    *)
(* handed to React, applied by the next render.  effects holds the effects *)
(* of the last render that React has yet to run.  storage is the item of   *)
(* localStorage the hook keeps the session in, as JSON.parse reads it.     *)
(*                                                                         *)
(* mock is the module state of the mock backend (mockApi), null in the     *)
(* specifications of the hook.                                             *)
(***************************************************************************)
EXTENDS Integers, Sequences, FiniteSets, TLC

VARIABLES puzzle, graph, files, gameState, pending, effects, storage, lastCall, mock

vars == <<puzzle, graph, files, gameState, pending, effects, storage, lastCall, mock>>

\* ------------------------------------------------------------------------
\* Bounds of the model
\* ------------------------------------------------------------------------

\* The number of commands by which a followed session may leave the scripted
\* sessions (the empty session among them).
FreeDepth == 2

\* The number of commands by which a followed session may leave a scripted
\* session that has begun.
ScriptDepth == 1

\* The draws of one call that may return a hash other than the first
\* ordinary hash not yet in use: an odd hash, or a hash a commit has already.
OddDraws == 1

\* The updates that may wait for one render.
MaxPending == 2

\* The updates that may be queued before the effects of a render have run.
MaxDuePending == 1

\* The number of commands by which a followed session may leave the session
\* that was read back from the stored item.
ReloadDepth == 1

\* ------------------------------------------------------------------------
\* Strings
\* ------------------------------------------------------------------------

\* null, for a state, an engine, a commit or a branch.
Null == [null |-> TRUE]

\* The falsy string: undefined (args[0] of an empty list) or ''.
NoArg == ""

\* const name = value, followed by the code that reads name.
With(value, Code(_)) == Code(value)

\* The function that maps the first component of each pair to the second.
Table(pairs) ==
    [s \in {p[1] : p \in pairs} |-> (CHOOSE p \in pairs : p[1] = s)[2]]

\* The characters of the strings the model converts.
Chars ==
    Table({<<"a1b2c3d4", <<"a", "1", "b", "2", "c", "3", "d", "4">>>>,
           <<"a1f09e33", <<"a", "1", "f", "0", "9", "e", "3", "3">>>>,
           <<"1090a13c", <<"1", "0", "9", "0", "a", "1", "3", "c">>>>,
           <<"c0ffee12", <<"c", "0", "f", "f", "e", "e", "1", "2">>>>,
           <<"d3adb33f", <<"d", "3", "a", "d", "b", "3", "3", "f">>>>,
           <<"e4f5a6b7", <<"e", "4", "f", "5", "a", "6", "b", "7">>>>,
           <<"f00dcafe", <<"f", "0", "0", "d", "c", "a", "f", "e">>>>,
           <<"0a1b2c3d", <<"0", "a", "1", "b", "2", "c", "3", "d">>>>,
           <<"9e8d7c6b", <<"9", "e", "8", "d", "7", "c", "6", "b">>>>,
           <<"beefface", <<"b", "e", "e", "f", "f", "a", "c", "e">>>>,
           <<"cab005e5", <<"c", "a", "b", "0", "0", "5", "e", "5">>>>,
           <<"deadc0de", <<"d", "e", "a", "d", "c", "0", "d", "e">>>>,
           <<"facade01", <<"f", "a", "c", "a", "d", "e", "0", "1">>>>,
           <<"7a7b7c7d", <<"7", "a", "7", "b", "7", "c", "7", "d">>>>,
           <<"5ca1ab1e", <<"5", "c", "a", "1", "a", "b", "1", "e">>>>,
           <<"b7c410de", <<"b", "7", "c", "4", "1", "0", "d", "e">>>>,
           <<"3c4d5e6f", <<"3", "c", "4", "d", "5", "e", "6", "f">>>>,
           <<"6f5e4d3c", <<"6", "f", "5", "e", "4", "d", "3", "c">>>>,
           <<"2b3c4d5e", <<"2", "b", "3", "c", "4", "d", "5", "e">>>>,
           <<"4d5e6f70", <<"4", "d", "5", "e", "6", "f", "7", "0">>>>,
           <<"8f9e0d1c", <<"8", "f", "9", "e", "0", "d", "1", "c">>>>,
           <<"0b1c2d3e", <<"0", "b", "1", "c", "2", "d", "3", "e">>>>,
           <<"b0a1c2d3", <<"b", "0", "a", "1", "c", "2", "d", "3">>>>,
           <<"c1d2e3f4", <<"c", "1", "d", "2", "e", "3", "f", "4">>>>,
           <<"d2e3f4a5", <<"d", "2", "e", "3", "f", "4", "a", "5">>>>,
           <<"e3f4a5b6", <<"e", "3", "f", "4", "a", "5", "b", "6">>>>,
           <<"f4a5b6c7", <<"f", "4", "a", "5", "b", "6", "c", "7">>>>,
           <<"a5b6c7d8", <<"a", "5", "b", "6", "c", "7", "d", "8">>>>,
           <<"2f3e4d5c", <<"2", "f", "3", "e", "4", "d", "5", "c">>>>,
           <<"7c8d9e0f", <<"7", "c", "8", "d", "9", "e", "0", "f">>>>,
           <<"9a8b7c6d", <<"9", "a", "8", "b", "7", "c", "6", "d">>>>,
           <<"bb11cc22", <<"b", "b", "1", "1", "c", "c", "2", "2">>>>,
           <<"cc22dd33", <<"c", "c", "2", "2", "d", "d", "3", "3">>>>,
           <<"dd33ee44", <<"d", "d", "3", "3", "e", "e", "4", "4">>>>,
           <<"ee44ff55", <<"e", "e", "4", "4", "f", "f", "5", "5">>>>,
           <<"ff55aa66", <<"f", "f", "5", "5", "a", "a", "6", "6">>>>,
           <<"3a4b5c6d", <<"3", "a", "4", "b", "5", "c", "6", "d">>>>,
           <<"6d7e8f90", <<"6", "d", "7", "e", "8", "f", "9", "0">>>>,
           <<"5e6f7a8b", <<"5", "e", "6", "f", "7", "a", "8", "b">>>>,
           <<"4c5d6e7f", <<"4", "c", "5", "d", "6", "e", "7", "f">>>>,
           <<"12345678", <<"1", "2", "3", "4", "5", "6", "7", "8">>>>,
           <<"8", <<"8">>>>,
           <<"", <<>>>>,
           <<"main", <<"m", "a", "i", "n">>>>,
           <<"Commit", <<"C", "o", "m", "m", "i", "t">>>>,
           <<"git ", <<"g", "i", "t", " ">>>>,
           <<"git commit", <<"g", "i", "t", " ", "c", "o", "m", "m", "i", "t">>>>,
           <<"commit", <<"c", "o", "m", "m", "i", "t">>>>,
           <<"git commit -m wip", <<"g", "i", "t", " ", "c", "o", "m", "m", "i", "t", " ", "-", "m", " ", "w", "i", "p">>>>,
           <<"commit -m wip", <<"c", "o", "m", "m", "i", "t", " ", "-", "m", " ", "w", "i", "p">>>>,
           <<"-m", <<"-", "m">>>>,
           <<"wip", <<"w", "i", "p">>>>,
           <<"git commit -m 'wip'", <<"g", "i", "t", " ", "c", "o", "m", "m", "i", "t", " ", "-", "m", " ", "'", "w", "i", "p", "'">>>>,
           <<"commit -m 'wip'", <<"c", "o", "m", "m", "i", "t", " ", "-", "m", " ", "'", "w", "i", "p", "'">>>>,
           <<"'wip'", <<"'", "w", "i", "p", "'">>>>,
           <<"git commit -m", <<"g", "i", "t", " ", "c", "o", "m", "m", "i", "t", " ", "-", "m">>>>,
           <<"commit -m", <<"c", "o", "m", "m", "i", "t", " ", "-", "m">>>>,
           <<"GIT Commit", <<"G", "I", "T", " ", "C", "o", "m", "m", "i", "t">>>>,
           <<" git commit ", <<" ", "g", "i", "t", " ", "c", "o", "m", "m", "i", "t", " ">>>>,
           <<"git  commit", <<"g", "i", "t", " ", " ", "c", "o", "m", "m", "i", "t">>>>,
           <<" commit", <<" ", "c", "o", "m", "m", "i", "t">>>>,
           <<"git", <<"g", "i", "t">>>>,
           <<"git branch", <<"g", "i", "t", " ", "b", "r", "a", "n", "c", "h">>>>,
           <<"branch", <<"b", "r", "a", "n", "c", "h">>>>,
           <<"git branch feature", <<"g", "i", "t", " ", "b", "r", "a", "n", "c", "h", " ", "f", "e", "a", "t", "u", "r", "e">>>>,
           <<"branch feature", <<"b", "r", "a", "n", "c", "h", " ", "f", "e", "a", "t", "u", "r", "e">>>>,
           <<"feature", <<"f", "e", "a", "t", "u", "r", "e">>>>,
           <<"git branch b", <<"g", "i", "t", " ", "b", "r", "a", "n", "c", "h", " ", "b">>>>,
           <<"branch b", <<"b", "r", "a", "n", "c", "h", " ", "b">>>>,
           <<"b", <<"b">>>>,
           <<"git branch main", <<"g", "i", "t", " ", "b", "r", "a", "n", "c", "h", " ", "m", "a", "i", "n">>>>,
           <<"branch main", <<"b", "r", "a", "n", "c", "h", " ", "m", "a", "i", "n">>>>,
           <<"git branch a1b2c3d4", <<"g", "i", "t", " ", "b", "r", "a", "n", "c", "h", " ", "a", "1", "b", "2", "c", "3", "d", "4">>>>,
           <<"branch a1b2c3d4", <<"b", "r", "a", "n", "c", "h", " ", "a", "1", "b", "2", "c", "3", "d", "4">>>>,
           <<"git branch 8", <<"g", "i", "t", " ", "b", "r", "a", "n", "c", "h", " ", "8">>>>,
           <<"branch 8", <<"b", "r", "a", "n", "c", "h", " ", "8">>>>,
           <<"git checkout", <<"g", "i", "t", " ", "c", "h", "e", "c", "k", "o", "u", "t">>>>,
           <<"checkout", <<"c", "h", "e", "c", "k", "o", "u", "t">>>>,
           <<"git checkout main", <<"g", "i", "t", " ", "c", "h", "e", "c", "k", "o", "u", "t", " ", "m", "a", "i", "n">>>>,
           <<"checkout main", <<"c", "h", "e", "c", "k", "o", "u", "t", " ", "m", "a", "i", "n">>>>,
           <<"git checkout feature", <<"g", "i", "t", " ", "c", "h", "e", "c", "k", "o", "u", "t", " ", "f", "e", "a", "t", "u", "r", "e">>>>,
           <<"checkout feature", <<"c", "h", "e", "c", "k", "o", "u", "t", " ", "f", "e", "a", "t", "u", "r", "e">>>>,
           <<"git checkout b", <<"g", "i", "t", " ", "c", "h", "e", "c", "k", "o", "u", "t", " ", "b">>>>,
           <<"checkout b", <<"c", "h", "e", "c", "k", "o", "u", "t", " ", "b">>>>,
           <<"git checkout nosuch", <<"g", "i", "t", " ", "c", "h", "e", "c", "k", "o", "u", "t", " ", "n", "o", "s", "u", "c", "h">>>>,
           <<"checkout nosuch", <<"c", "h", "e", "c", "k", "o", "u", "t", " ", "n", "o", "s", "u", "c", "h">>>>,
           <<"nosuch", <<"n", "o", "s", "u", "c", "h">>>>,
           <<"git checkout a1", <<"g", "i", "t", " ", "c", "h", "e", "c", "k", "o", "u", "t", " ", "a", "1">>>>,
           <<"checkout a1", <<"c", "h", "e", "c", "k", "o", "u", "t", " ", "a", "1">>>>,
           <<"a1", <<"a", "1">>>>,
           <<"git checkout 1", <<"g", "i", "t", " ", "c", "h", "e", "c", "k", "o", "u", "t", " ", "1">>>>,
           <<"checkout 1", <<"c", "h", "e", "c", "k", "o", "u", "t", " ", "1">>>>,
           <<"1", <<"1">>>>,
           <<"git checkout 8", <<"g", "i", "t", " ", "c", "h", "e", "c", "k", "o", "u", "t", " ", "8">>>>,
           <<"checkout 8", <<"c", "h", "e", "c", "k", "o", "u", "t", " ", "8">>>>,
           <<"git checkout a1b2c3d4", <<"g", "i", "t", " ", "c", "h", "e", "c", "k", "o", "u", "t", " ", "a", "1", "b", "2", "c", "3", "d", "4">>>>,
           <<"checkout a1b2c3d4", <<"c", "h", "e", "c", "k", "o", "u", "t", " ", "a", "1", "b", "2", "c", "3", "d", "4">>>>,
           <<"git merge", <<"g", "i", "t", " ", "m", "e", "r", "g", "e">>>>,
           <<"merge", <<"m", "e", "r", "g", "e">>>>,
           <<"git merge main", <<"g", "i", "t", " ", "m", "e", "r", "g", "e", " ", "m", "a", "i", "n">>>>,
           <<"merge main", <<"m", "e", "r", "g", "e", " ", "m", "a", "i", "n">>>>,
           <<"git merge feature", <<"g", "i", "t", " ", "m", "e", "r", "g", "e", " ", "f", "e", "a", "t", "u", "r", "e">>>>,
           <<"merge feature", <<"m", "e", "r", "g", "e", " ", "f", "e", "a", "t", "u", "r", "e">>>>,
           <<"git merge b", <<"g", "i", "t", " ", "m", "e", "r", "g", "e", " ", "b">>>>,
           <<"merge b", <<"m", "e", "r", "g", "e", " ", "b">>>>,
           <<"git merge nosuch", <<"g", "i", "t", " ", "m", "e", "r", "g", "e", " ", "n", "o", "s", "u", "c", "h">>>>,
           <<"merge nosuch", <<"m", "e", "r", "g", "e", " ", "n", "o", "s", "u", "c", "h">>>>,
           <<"git rebase", <<"g", "i", "t", " ", "r", "e", "b", "a", "s", "e">>>>,
           <<"rebase", <<"r", "e", "b", "a", "s", "e">>>>,
           <<"git rebase main", <<"g", "i", "t", " ", "r", "e", "b", "a", "s", "e", " ", "m", "a", "i", "n">>>>,
           <<"rebase main", <<"r", "e", "b", "a", "s", "e", " ", "m", "a", "i", "n">>>>,
           <<"git rebase feature", <<"g", "i", "t", " ", "r", "e", "b", "a", "s", "e", " ", "f", "e", "a", "t", "u", "r", "e">>>>,
           <<"rebase feature", <<"r", "e", "b", "a", "s", "e", " ", "f", "e", "a", "t", "u", "r", "e">>>>,
           <<"git rebase b", <<"g", "i", "t", " ", "r", "e", "b", "a", "s", "e", " ", "b">>>>,
           <<"rebase b", <<"r", "e", "b", "a", "s", "e", " ", "b">>>>,
           <<"git rebase nosuch", <<"g", "i", "t", " ", "r", "e", "b", "a", "s", "e", " ", "n", "o", "s", "u", "c", "h">>>>,
           <<"rebase nosuch", <<"r", "e", "b", "a", "s", "e", " ", "n", "o", "s", "u", "c", "h">>>>,
           <<"git undo", <<"g", "i", "t", " ", "u", "n", "d", "o">>>>,
           <<"undo", <<"u", "n", "d", "o">>>>,
           <<"git status", <<"g", "i", "t", " ", "s", "t", "a", "t", "u", "s">>>>,
           <<"status", <<"s", "t", "a", "t", "u", "s">>>>,
           <<"git constructor", <<"g", "i", "t", " ", "c", "o", "n", "s", "t", "r", "u", "c", "t", "o", "r">>>>,
           <<"constructor", <<"c", "o", "n", "s", "t", "r", "u", "c", "t", "o", "r">>>>,
           <<"git __proto__", <<"g", "i", "t", " ", "_", "_", "p", "r", "o", "t", "o", "_", "_">>>>,
           <<"__proto__", <<"_", "_", "p", "r", "o", "t", "o", "_", "_">>>>})

Strings == DOMAIN Chars

\* The string with the given characters.
Str(cs) == CHOOSE s \in Strings : Chars[s] = cs

\* The characters \s matches.
Whitespace == {" "}

Quotes == {"\"", "'"}

Digits == {"0", "1", "2", "3", "4", "5", "6", "7", "8", "9"}

DigitValue ==
    ("0" :> 0) @@ ("1" :> 1) @@ ("2" :> 2) @@ ("3" :> 3) @@ ("4" :> 4)
    @@ ("5" :> 5) @@ ("6" :> 6) @@ ("7" :> 7) @@ ("8" :> 8) @@ ("9" :> 9)

\* The upper-case letters of the strings above.
LowerCase == ("G" :> "g") @@ ("I" :> "i") @@ ("T" :> "t") @@ ("C" :> "c")

toLowerCase(cs) ==
    [i \in DOMAIN cs |-> IF cs[i] \in DOMAIN LowerCase THEN LowerCase[cs[i]] ELSE cs[i]]

RECURSIVE trimStart(_)
trimStart(cs) ==
    IF cs # <<>> /\ Head(cs) \in Whitespace THEN trimStart(Tail(cs)) ELSE cs

RECURSIVE trimEnd(_)
trimEnd(cs) ==
    IF cs # <<>> /\ cs[Len(cs)] \in Whitespace
    THEN trimEnd(SubSeq(cs, 1, Len(cs) - 1))
    ELSE cs

trim(cs) == trimEnd(trimStart(cs))

\* cs.startsWith(prefix)
startsWith(cs, prefix) ==
    Len(prefix) <= Len(cs) /\ SubSeq(cs, 1, Len(prefix)) = prefix

\* cs.slice(start)
slice(cs, start) == SubSeq(cs, start + 1, Len(cs))

\* cs.split(/\s+/): every run of whitespace ends a part, an empty one too.
RECURSIVE splitLoop(_, _, _)
splitLoop(cs, current, parts) ==
    IF cs = <<>> THEN Append(parts, current)
    ELSE IF Head(cs) \in Whitespace
         THEN splitLoop(trimStart(cs), <<>>, Append(parts, current))
         ELSE splitLoop(Tail(cs), Append(current, Head(cs)), parts)

split(cs) == splitLoop(cs, <<>>, <<>>)

\* parts.join(' ')
RECURSIVE join(_)
join(parts) ==
    IF parts = <<>> THEN <<>>
    ELSE IF Len(parts) = 1 THEN parts[1]
    ELSE parts[1] \o <<" ">> \o join(Tail(parts))

\* id.startsWith(target) for two strings.
StartsWith(id, target) == startsWith(Chars[id], Chars[target])

\* parseGitCommand(input): null unless the trimmed input starts with
\* 'git ' in any case, else the lower-cased first part of what follows and
\* the other parts as they are.
parseGitCommand(input) ==
    With(trim(Chars[input]), LAMBDA trimmed :
    IF ~startsWith(toLowerCase(trimmed), Chars["git "]) THEN Null
    ELSE
    With(split(slice(trimmed, 4)), LAMBDA parts :
    [command |-> Str(toLowerCase(parts[1])),
     args |-> [i \in 1..(Len(parts) - 1) |-> Str(parts[i + 1])]]))

\* commandString.match(/-m\s+["'](.+?)["']/): null, or the group of the
\* leftmost match: after '-m' and whitespace a quote, then the shortest run
\* of at least one character that a quote follows.
Least(S) == CHOOSE i \in S : \A j \in S : i <= j

\* The place in cs of the first character after the '-m' at i and the
\* whitespace that follows it.
quoteAt(cs, i) == Len(cs) - Len(trimStart(SubSeq(cs, i + 2, Len(cs)))) + 1

\* The places of the quotes that may close the group opened by the quote
\* at q.
closing(cs, q) == {e \in (q + 2)..Len(cs) : cs[e] \in Quotes}

\* The places of cs at which the expression matches.
matchStarts(cs) ==
    {i \in 1..(Len(cs) - 1) :
        /\ cs[i] = "-" /\ cs[i + 1] = "m"
        /\ \E q \in {quoteAt(cs, i)} :
              /\ q > i + 2
              /\ q <= Len(cs)
              /\ cs[q] \in Quotes
              /\ closing(cs, q) # {}}

messageMatch(commandString) ==
    With(Chars[commandString], LAMBDA cs :
    With(matchStarts(cs), LAMBDA starts :
    IF starts = {} THEN Null
    ELSE
    With(quoteAt(cs, Least(starts)), LAMBDA q :
    [group |-> Str(SubSeq(cs, q + 1, Least(closing(cs, q)) - 1))])))

\* ------------------------------------------------------------------------
\* Commit hashes
\* ------------------------------------------------------------------------

\* Hashes of eight hexadecimal digits, as Math.random().toString(16)
\* .substring(2, 10) almost always gives: some begin with a digit, some share
\* their first digits.
OrdinaryHashes ==
    <<"a1b2c3d4", "a1f09e33", "1090a13c", "c0ffee12", "d3adb33f", "e4f5a6b7",
      "f00dcafe", "0a1b2c3d", "9e8d7c6b", "beefface", "cab005e5", "deadc0de",
      "facade01", "7a7b7c7d", "5ca1ab1e", "b7c410de", "3c4d5e6f", "6f5e4d3c",
      "2b3c4d5e", "4d5e6f70", "8f9e0d1c", "0b1c2d3e", "b0a1c2d3", "c1d2e3f4",
      "d2e3f4a5", "e3f4a5b6", "f4a5b6c7", "a5b6c7d8", "2f3e4d5c", "7c8d9e0f",
      "9a8b7c6d", "bb11cc22", "cc22dd33", "dd33ee44", "ee44ff55", "ff55aa66",
      "3a4b5c6d", "6d7e8f90", "5e6f7a8b", "4c5d6e7f">>

\* Hashes it gives for particular values of Math.random(): digits only
\* (0x0.12345678), one digit (0.5) and none (0).
OddHashes == {"12345678", "8", ""}

CommitIds(g) == IF g = Null THEN {} ELSE {g.commits[i].id : i \in DOMAIN g.commits}

Range(s) == {s[i] : i \in DOMAIN s}

\* The first hash of OrdinaryHashes, from position from on, that no commit
\* of g has and that is not among the hashes drawn.
RECURSIVE FreshFrom(_, _, _)
FreshFrom(g, drawn, from) ==
    IF OrdinaryHashes[from] \in CommitIds(g) \cup Range(drawn)
    THEN FreshFrom(g, drawn, from + 1)
    ELSE OrdinaryHashes[from]

\* A hash that is new to the call: no commit of g has it and the call has
\* not drawn it.  Of the hashes new to the call the model draws this one, the
\* first of OrdinaryHashes.
FreshHash(g, drawn) == FreshFrom(g, drawn, 1)

\* generateCommitHash(): the values a draw can return in a call that began
\* on graph g and has drawn the hashes of drawn so far.  The hash is drawn
\* without a look at the graph: it may be new, it may be an odd hash, and it
\* may be the id of a commit of g or a hash the call has drawn before.
generateCommitHash(g, drawn) ==
    {FreshHash(g, drawn)} \cup OddHashes \cup CommitIds(g) \cup Range(drawn)

\* The runs of n further draws of a call that began on graph g and has
\* drawn the hashes of drawn, with at most odd draws that are not new.
RECURSIVE RandomRuns(_, _, _, _)
RandomRuns(g, drawn, n, odd) ==
    IF n = 0 THEN {<<>>}
    ELSE UNION {{<<h>> \o r :
                   r \in RandomRuns(g, Append(drawn, h), n - 1,
                                    IF h = FreshHash(g, drawn) THEN odd ELSE odd - 1)} :
                h \in IF odd > 0 THEN generateCommitHash(g, drawn)
                                 ELSE {FreshHash(g, drawn)}}

\* The run of n further draws every one of which is new.
RECURSIVE FreshRun(_, _, _)
FreshRun(g, drawn, n) ==
    IF n = 0 THEN <<>>
    ELSE <<FreshHash(g, drawn)>> \o FreshRun(g, Append(drawn, FreshHash(g, drawn)), n - 1)

\* Map.get on graph.commits; null stands for undefined.
GetCommit(g, id) ==
    IF id \in CommitIds(g)
    THEN LET i == CHOOSE i \in DOMAIN g.commits : g.commits[i].id = id
         IN  g.commits[i]
    ELSE Null

HasBranch(g, name) == name \in DOMAIN g.branches

\* ------------------------------------------------------------------------
\* Utilities (utils.ts)
\* ------------------------------------------------------------------------

\* Copies every commit and every branch, keeps headRef and isDetached.
cloneGitGraph(g) ==
    [commits |-> [i \in DOMAIN g.commits |->
                    [id |-> g.commits[i].id,
                     message |-> g.commits[i].message,
                     parentIds |-> g.commits[i].parentIds,
                     branch |-> g.commits[i].branch,
                     depth |-> g.commits[i].depth]],
     branches |-> [b \in DOMAIN g.branches |->
                    [name |-> g.branches[b].name,
                     tipCommitId |-> g.branches[b].tipCommitId]],
     headRef |-> g.headRef,
     isDetached |-> g.isDetached]

\* JSON round trip of a FileTarget list.
deepClone(fs) ==
    [i \in DOMAIN fs |->
        [id |-> fs[i].id, name |-> fs[i].name, branch |-> fs[i].branch,
         depth |-> fs[i].depth, collected |-> fs[i].collected]]

\* ------------------------------------------------------------------------
\* The puzzle
\* ------------------------------------------------------------------------

AllCommands == {"commit", "branch", "checkout", "merge", "rebase", "undo"}

\* createTestPuzzle(), initialCommitId being the hash it draws.
createTestPuzzle(initialCommitId) ==
    [id |-> "test-puzzle",
     difficulty |-> "medium",
     files |-> <<[id |-> "1", name |-> "README.md", branch |-> "main",
                  depth |-> 1, collected |-> FALSE],
                 [id |-> "2", name |-> "index.ts", branch |-> "feature",
                  depth |-> 2, collected |-> FALSE],
                 [id |-> "3", name |-> "config.json", branch |-> "main",
                  depth |-> 3, collected |-> FALSE]>>,
     initialGraph |->
        [commits |-> <<[id |-> initialCommitId, message |-> "Initial commit",
                        parentIds |-> <<>>, branch |-> "main", depth |-> 0]>>,
         branches |-> [b \in {"main"} |->
                         [name |-> "main", tipCommitId |-> initialCommitId]],
         headRef |-> "main",
         isDetached |-> FALSE],
     solution |-> <<>>,
     parScore |-> 8,
     constraints |-> [maxCommands |-> 20,
                      maxCommits |-> 15,
                      maxCheckouts |-> 10,
                      maxBranches |-> 5,
                      allowedCommands |-> AllCommands]]

\* ------------------------------------------------------------------------
\* GitEngine queries
\* ------------------------------------------------------------------------

\* new GitEngine(p): the graph and the files of the new engine.
GitEngine(p) == [graph |-> cloneGitGraph(p.initialGraph), files |-> deepClone(p.files)]

\* The current commit, null when HEAD resolves to no id, to the empty id or
\* to an id no commit has.
getCurrentCommit(g) ==
    LET ref == IF g.isDetached THEN g.headRef
               ELSE IF HasBranch(g, g.headRef) THEN g.branches[g.headRef].tipCommitId
               ELSE NoArg
    IN  IF ref # NoArg THEN GetCommit(g, ref) ELSE Null

\* getCurrentBranch answering, on a detached HEAD, the branch the current
\* commit is labelled with.
getCurrentBranch_labelWhenDetached(g) ==
    IF g.isDetached
    THEN (IF getCurrentCommit(g) # Null /\ HasBranch(g, getCurrentCommit(g).branch)
          THEN g.branches[getCurrentCommit(g).branch] ELSE Null)
    ELSE IF HasBranch(g, g.headRef) THEN g.branches[g.headRef] ELSE Null

\* The current branch, null on a detached HEAD.
getCurrentBranch(g) ==
    IF g.isDetached THEN Null
    ELSE IF HasBranch(g, g.headRef) THEN g.branches[g.headRef] ELSE Null

\* The search of isAncestor following only the first parent of a commit.
RECURSIVE isAncestorLoop_firstParent(_, _, _, _)
isAncestorLoop_firstParent(g, potentialAncestorId, queue, visited) ==
    IF queue = <<>> THEN FALSE
    ELSE LET current == Head(queue)
             rest == Tail(queue)
             commit == GetCommit(g, current)
         IN  IF current = potentialAncestorId THEN TRUE
             ELSE IF current \in visited
                  THEN isAncestorLoop_firstParent(g, potentialAncestorId, rest, visited)
                  ELSE isAncestorLoop_firstParent(g, potentialAncestorId,
                          rest \o (IF commit = Null \/ commit.parentIds = <<>> THEN <<>>
                                   ELSE <<commit.parentIds[1]>>),
                          visited \cup {current})

isAncestor_firstParent(g, potentialAncestorId, commitId) ==
    isAncestorLoop_firstParent(g, potentialAncestorId, <<commitId>>, {})

RECURSIVE isAncestorLoop(_, _, _, _)
isAncestorLoop(g, potentialAncestorId, queue, visited) ==
    IF queue = <<>> THEN FALSE
    ELSE LET current == Head(queue)
             rest == Tail(queue)
             commit == GetCommit(g, current)
         IN  IF current = potentialAncestorId THEN TRUE
             ELSE IF current \in visited
                  THEN isAncestorLoop(g, potentialAncestorId, rest, visited)
                  ELSE isAncestorLoop(g, potentialAncestorId,
                                      rest \o (IF commit = Null THEN <<>>
                                               ELSE commit.parentIds),
                                      visited \cup {current})

isAncestor(g, potentialAncestorId, commitId) ==
    isAncestorLoop(g, potentialAncestorId, <<commitId>>, {})

RECURSIVE getCommitsBetweenLoop(_, _, _, _, _)
getCommitsBetweenLoop(g, current, toId, visited, commits) ==
    IF current = Null THEN commits
    ELSE IF current.id \in visited \/ current.id = toId THEN commits
    ELSE IF Len(current.parentIds) > 0
         THEN getCommitsBetweenLoop(g, GetCommit(g, current.parentIds[1]), toId,
                                    visited \cup {current.id}, <<current>> \o commits)
         ELSE <<current>> \o commits

getCommitsBetween(g, fromId, toId) ==
    getCommitsBetweenLoop(g, GetCommit(g, fromId), toId, {}, <<>>)

\* files after checkFileCollection(branch, depth)
checkFileCollection(fs, branch, depth) ==
    [i \in DOMAIN fs |->
        IF ~fs[i].collected /\ fs[i].branch = branch /\ fs[i].depth = depth
        THEN [fs[i] EXCEPT !.collected = TRUE]
        ELSE fs[i]]

allFilesCollected(fs) == \A i \in DOMAIN fs : fs[i].collected

\* ------------------------------------------------------------------------
\* GitEngine commands.  Each returns the CommandResult (success, message,
\* gameWon) together with the engine's graph and files after the call.
\* ------------------------------------------------------------------------

Failure(g, fs, msg) ==
    [success |-> FALSE, message |-> msg, gameWon |-> FALSE, graph |-> g, files |-> fs]

Success(g, fs, msg, won) ==
    [success |-> TRUE, message |-> msg, gameWon |-> won, graph |-> g, files |-> fs]

\* currentBranch.tipCommitId = id; branches.set(currentBranch.name, ...)
SetTip(g, name, id) ==
    [g EXCEPT !.branches[name] = [name |-> name, tipCommitId |-> id]]

\* graph.commits.set(c.id, c): a new key goes to the end of the Map, a key
\* the Map has keeps its place and takes the new commit.
commitsSet(g, c) ==
    IF c.id \in CommitIds(g)
    THEN [g EXCEPT !.commits = [i \in DOMAIN g.commits |->
                                  IF g.commits[i].id = c.id THEN c ELSE g.commits[i]]]
    ELSE [g EXCEPT !.commits = Append(g.commits, c)]

commit(g, fs, constraints, message, newCommitId) ==
    LET currentCommit == getCurrentCommit(g)
        currentBranch == getCurrentBranch(g)
    IN  IF currentCommit = Null THEN Failure(g, fs, "No current commit found")
        ELSE IF Len(g.commits) >= constraints.maxCommits
        THEN Failure(g, fs, "Maximum commits reached")
        ELSE
        LET newDepth == currentCommit.depth + 1
            branchName == IF currentBranch # Null THEN currentBranch.name
                          ELSE currentCommit.branch
            newCommit == [id |-> newCommitId, message |-> message,
                          parentIds |-> <<currentCommit.id>>,
                          branch |-> branchName, depth |-> newDepth]
            g1 == commitsSet(g, newCommit)
            g2 == IF currentBranch # Null
                  THEN SetTip(g1, currentBranch.name, newCommitId)
                  ELSE [g1 EXCEPT !.headRef = newCommitId]
            fs2 == checkFileCollection(fs, branchName, newDepth)
            gameWon == allFilesCollected(fs2) /\ branchName = "main"
        IN  Success(g2, fs2, "Created commit", gameWon)

branch(g, fs, constraints, branchName) ==
    IF branchName = NoArg THEN Failure(g, fs, "Branch name is required")
    ELSE IF HasBranch(g, branchName) THEN Failure(g, fs, "Branch already exists")
    ELSE IF Cardinality(DOMAIN g.branches) >= constraints.maxBranches
    THEN Failure(g, fs, "Maximum branches reached")
    ELSE
    LET currentCommit == getCurrentCommit(g)
    IN  IF currentCommit = Null THEN Failure(g, fs, "No current commit found")
        ELSE Success([g EXCEPT !.branches =
                         [b \in DOMAIN g.branches \cup {branchName} |->
                            IF b = branchName
                            THEN [name |-> branchName, tipCommitId |-> currentCommit.id]
                            ELSE g.branches[b]]],
                     fs, "Created branch", FALSE)

\* checkout that moves HEAD before it knows whether the target resolves.
checkout_movesHeadFirst(g, fs, target) ==
    IF target = NoArg THEN Failure(g, fs, "Checkout target is required")
    ELSE IF HasBranch(g, target)
    THEN Success([g EXCEPT !.headRef = target, !.isDetached = FALSE],
                 fs, "Switched to branch", FALSE)
    ELSE
    LET matching == {i \in DOMAIN g.commits : StartsWith(g.commits[i].id, target)}
        moved == [g EXCEPT !.headRef = target, !.isDetached = TRUE]
    IN  IF matching # {}
        THEN LET i == CHOOSE i \in matching : \A j \in matching : i <= j
             IN  Success([g EXCEPT !.headRef = g.commits[i].id, !.isDetached = TRUE],
                         fs, "HEAD is now at", FALSE)
        ELSE Failure(moved, fs, "pathspec did not match any branch or commit")

\* checkout looking for a commit before it looks for a branch.
checkout_commitsFirst(g, fs, target) ==
    LET matching == {i \in DOMAIN g.commits : StartsWith(g.commits[i].id, target)}
    IN
    IF target = NoArg THEN Failure(g, fs, "Checkout target is required")
    ELSE IF target \in CommitIds(g)
    THEN Success([g EXCEPT !.headRef = target, !.isDetached = TRUE],
                 fs, "HEAD is now at", FALSE)
    ELSE IF matching # {}
    THEN LET i == CHOOSE i \in matching : \A j \in matching : i <= j
         IN  Success([g EXCEPT !.headRef = g.commits[i].id, !.isDetached = TRUE],
                     fs, "HEAD is now at", FALSE)
    ELSE IF HasBranch(g, target)
    THEN Success([g EXCEPT !.headRef = target, !.isDetached = FALSE],
                 fs, "Switched to branch", FALSE)
    ELSE Failure(g, fs, "pathspec did not match any branch or commit")

checkout(g, fs, target) ==
    IF target = NoArg THEN Failure(g, fs, "Checkout target is required")
    ELSE IF HasBranch(g, target)
    THEN Success([g EXCEPT !.headRef = target, !.isDetached = FALSE],
                 fs, "Switched to branch", FALSE)
    ELSE IF target \in CommitIds(g)
    THEN Success([g EXCEPT !.headRef = target, !.isDetached = TRUE],
                 fs, "HEAD is now at", FALSE)
    ELSE
    LET matching == {i \in DOMAIN g.commits : StartsWith(g.commits[i].id, target)}
    IN  IF matching # {}
        THEN LET i == CHOOSE i \in matching : \A j \in matching : i <= j
             IN  Success([g EXCEPT !.headRef = g.commits[i].id, !.isDetached = TRUE],
                         fs, "HEAD is now at", FALSE)
        ELSE Failure(g, fs, "pathspec did not match any branch or commit")

MathMax(a, b) == IF a >= b THEN a ELSE b

merge(g, fs, branchName, mergeCommitId) ==
    LET currentBranch == getCurrentBranch(g)
    IN
    IF branchName = NoArg THEN Failure(g, fs, "Branch name is required")
    ELSE IF currentBranch = Null
    THEN Failure(g, fs, "Cannot merge in detached HEAD state")
    ELSE IF ~HasBranch(g, branchName) THEN Failure(g, fs, "Branch not found")
    ELSE
    LET currentCommit == getCurrentCommit(g)
        targetCommit == GetCommit(g, g.branches[branchName].tipCommitId)
    IN
    IF currentCommit = Null \/ targetCommit = Null
    THEN Failure(g, fs, "Could not resolve commits for merge")
    ELSE IF isAncestor(g, currentCommit.id, targetCommit.id)
    THEN Success(SetTip(g, currentBranch.name, targetCommit.id), fs,
                 "Fast-forward merge",
                 allFilesCollected(fs) /\ currentBranch.name = "main")
    ELSE
    LET depth == MathMax(currentCommit.depth, targetCommit.depth) + 1
        mergeCommit == [id |-> mergeCommitId, message |-> "Merge branch",
                        parentIds |-> <<currentCommit.id, targetCommit.id>>,
                        branch |-> currentBranch.name, depth |-> depth]
        g2 == SetTip(commitsSet(g, mergeCommit), currentBranch.name, mergeCommitId)
        fs2 == checkFileCollection(fs, currentBranch.name, depth)
    IN  Success(g2, fs2, "Merged", allFilesCollected(fs2) /\ currentBranch.name = "main")

\* The replay loop of rebase: the graph after replaying commitsToReplay on
\* top of newParentId with the hashes drawn, and the id of the last commit
\* created.
RECURSIVE replay(_, _, _, _, _)
replay(g, commitsToReplay, newParentId, branchName, random) ==
    IF commitsToReplay = <<>> THEN [graph |-> g, newParentId |-> newParentId]
    ELSE LET newCommitId == Head(random)
             parent == GetCommit(g, newParentId)
             newCommit == [id |-> newCommitId,
                           message |-> Head(commitsToReplay).message,
                           parentIds |-> <<newParentId>>,
                           branch |-> branchName,
                           depth |-> (IF parent = Null THEN 0 ELSE parent.depth) + 1]
         IN  replay(commitsSet(g, newCommit), Tail(commitsToReplay), newCommitId,
                    branchName, Tail(random))

rebase(g, fs, targetBranch, random) ==
    LET currentBranch == getCurrentBranch(g)
    IN
    IF targetBranch = NoArg THEN Failure(g, fs, "Target branch is required")
    ELSE IF currentBranch = Null
    THEN Failure(g, fs, "Cannot rebase in detached HEAD state")
    ELSE IF ~HasBranch(g, targetBranch) THEN Failure(g, fs, "Branch not found")
    ELSE
    LET target == g.branches[targetBranch]
        currentCommit == getCurrentCommit(g)
        targetCommit == GetCommit(g, target.tipCommitId)
    IN
    IF currentCommit = Null \/ targetCommit = Null
    THEN Failure(g, fs, "Could not resolve commits for rebase")
    ELSE
    LET commitsToReplay ==
            getCommitsBetween(g, currentBranch.tipCommitId, target.tipCommitId)
    IN
    IF Len(commitsToReplay) = 0
    THEN Success(g, fs, "Already up to date",
                 allFilesCollected(fs) /\ currentBranch.name = "main")
    ELSE
    LET r == replay(g, commitsToReplay, target.tipCommitId, currentBranch.name, random)
        g2 == SetTip(r.graph, currentBranch.name, r.newParentId)
        newCommit == GetCommit(g2, r.newParentId)
        fs2 == checkFileCollection(fs, currentBranch.name, newCommit.depth)
    IN  Success(g2, fs2, "Rebased", allFilesCollected(fs2) /\ currentBranch.name = "main")

\* command.args[0], undefined being NoArg.
FirstArg(args) == IF Len(args) > 0 THEN args[1] ELSE NoArg

\* GitEngine.executeCommand; random holds the hashes generateCommitHash
\* returns during the call, in the order drawn.
engineExecuteCommand(g, fs, constraints, type, args, random) ==
    IF type \notin constraints.allowedCommands
    THEN Failure(g, fs, "Command is not allowed in this puzzle")
    ELSE CASE type = "commit" ->
                commit(g, fs, constraints,
                       IF FirstArg(args) = NoArg THEN "Commit" ELSE FirstArg(args),
                       Head(random))
           [] type = "branch" -> branch(g, fs, constraints, FirstArg(args))
           [] type = "checkout" -> checkout(g, fs, FirstArg(args))
           [] type = "merge" -> merge(g, fs, FirstArg(args), Head(random))
           [] type = "rebase" -> rebase(g, fs, FirstArg(args), random)
           [] type = "undo" -> Failure(g, fs, "Undo is handled by the game state manager")
           [] OTHER -> Failure(g, fs, "Unknown command")

\* GitEngine.restoreState
restoreState(g, fs) == [graph |-> cloneGitGraph(g), files |-> deepClone(fs)]

\* ------------------------------------------------------------------------
\* The session kept in localStorage
\* ------------------------------------------------------------------------

\* A property key that is an array index: digits only, no leading zero.
\* Every hash has at most eight digits, so its value is below 2^32 - 1.
IsArrayIndex(key) ==
    LET cs == Chars[key]
    IN  /\ cs # <<>>
        /\ \A i \in DOMAIN cs : cs[i] \in Digits
        /\ Len(cs) = 1 \/ cs[1] # "0"

RECURSIVE IndexValueOf(_)
IndexValueOf(cs) ==
    IF cs = <<>> THEN 0
    ELSE 10 * IndexValueOf(SubSeq(cs, 1, Len(cs) - 1)) + DigitValue[cs[Len(cs)]]

IndexValue(key) == IndexValueOf(Chars[key])

\* The order in which an object built from the entries of commits lists
\* them, in Object.entries as in JSON.stringify: the array-index keys first,
\* ascending, then the other keys in the order they were added.
OwnPropertyOrder(commits) ==
    LET indexed == SelectSeq(commits, LAMBDA c : IsArrayIndex(c.id))
        others == SelectSeq(commits, LAMBDA c : ~IsArrayIndex(c.id))
    IN  SortSeq(indexed, LAMBDA a, b : IndexValue(a.id) < IndexValue(b.id)) \o others

\* Object.fromEntries of the two Maps of a graph.
serializeGraph(g) ==
    [commits |-> OwnPropertyOrder(g.commits),
     branches |-> [b \in DOMAIN g.branches |-> g.branches[b]],
     headRef |-> g.headRef,
     isDetached |-> g.isDetached]

\* new Map(Object.entries(...)) of the two objects of a serialized graph.
deserializeGraph(data) ==
    [commits |-> OwnPropertyOrder(data.commits),
     branches |-> [b \in DOMAIN data.branches |-> data.branches[b]],
     headRef |-> data.headRef,
     isDetached |-> data.isDetached]

\* JSON.parse(JSON.stringify(g)) of a graph that still holds its Maps: a Map
\* has no enumerable property, so it is written as {} and read back as an
\* object without keys.
JSONOfMapGraph(g) ==
    [commits |-> <<>>, branches |-> <<>>,
     headRef |-> g.headRef, isDetached |-> g.isDetached]

\* The object the save effect builds: only gameState.graph goes through
\* serializeGraph.
toSave(gs, p) == [state |-> [gs EXCEPT !.graph = serializeGraph(gs.graph)], puzzle |-> p]

\* saveToStorage(STORAGE_KEY, value): the item as JSON.parse reads it back,
\* value being null or an object toSave built.
saveToStorage(value) ==
    IF value = Null THEN Null
    ELSE [state |->
            [value.state EXCEPT
               !.files = deepClone(value.state.files),
               !.undoStack = [i \in DOMAIN value.state.undoStack |->
                                [graph |-> JSONOfMapGraph(value.state.undoStack[i].graph),
                                 files |-> deepClone(value.state.undoStack[i].files)]]],
          puzzle |-> [value.puzzle EXCEPT
                        !.files = deepClone(value.puzzle.files),
                        !.initialGraph = JSONOfMapGraph(value.puzzle.initialGraph)]]

\* getFromStorage(STORAGE_KEY, null) for the item held: null when there is
\* none or when it is 'null'.
getFromStorage(item) == item

\* ------------------------------------------------------------------------
\* The useGame hook
\* ------------------------------------------------------------------------

\* What the last call of the hook was and what it returned; command and
\* args are the parsed command and the arguments handed to the engine.
Call(op, commandString, command, args, success, message, gameWon) ==
    [op |-> op, commandString |-> commandString, command |-> command, args |-> args,
     success |-> success, message |-> message, gameWon |-> gameWon]

\* setPuzzle(p), setEngine(e) and setGameState(gs) of one call.
SetAll(p, e, gs) ==
    [kind |-> "set", puzzle |-> p, graph |-> e.graph, files |-> e.files, gameState |-> gs]

\* setGameState(prev => ...) of executeCommand.
CommandUpdater(command, commandType, previousState, gameWon) ==
    [kind |-> "command", command |-> command, commandType |-> commandType,
     previousState |-> previousState, gameWon |-> gameWon]

\* setGameState(prev => ...) of undo; lastCommand is null for undefined.
UndoUpdater(lastCommand) == [kind |-> "undo", lastCommand |-> lastCommand]

Front(s) == SubSeq(s, 1, Len(s) - 1)

Max0(n) == IF n >= 0 THEN n ELSE 0

\* The GameState an updater returns for the state prev it is given, run
\* when the engine holds (g, fs).
applyUpdater(u, prev, g, fs) ==
    IF prev = Null THEN Null
    ELSE IF u.kind = "command"
    THEN [prev EXCEPT
            !.graph = cloneGitGraph(g),
            !.files = deepClone(fs),
            !.commandHistory = Append(prev.commandHistory, u.command),
            !.undoStack = Append(prev.undoStack, u.previousState),
            !.commandsUsed = prev.commandsUsed + 1,
            !.checkoutsUsed = IF u.commandType = "checkout"
                              THEN prev.checkoutsUsed + 1
                              ELSE prev.checkoutsUsed,
            !.status = IF u.gameWon THEN "won" ELSE prev.status]
    ELSE [prev EXCEPT
            !.graph = cloneGitGraph(g),
            !.files = deepClone(fs),
            !.commandHistory = Front(prev.commandHistory),
            !.undoStack = Front(prev.undoStack),
            !.commandsUsed = Max0(prev.commandsUsed - 1),
            !.checkoutsUsed = IF u.lastCommand # Null /\ u.lastCommand.type = "checkout"
                              THEN Max0(prev.checkoutsUsed - 1)
                              ELSE prev.checkoutsUsed]

\* React working through the queue of a render: a set replaces the state,
\* an updater is run on the state the updates before it left and reads the
\* engine as it is by then.
RECURSIVE renderLoop(_, _)
renderLoop(queue, s) ==
    IF queue = <<>> THEN s
    ELSE LET u == Head(queue)
         IN  renderLoop(Tail(queue),
                IF u.kind = "set"
                THEN [puzzle |-> u.puzzle, graph |-> u.graph, files |-> u.files,
                      gameState |-> u.gameState]
                ELSE [s EXCEPT !.gameState = applyUpdater(u, s.gameState, graph, files)])

\* The state the next render shows.
NextRender ==
    renderLoop(pending, [puzzle |-> puzzle, graph |-> graph, files |-> files,
                         gameState |-> gameState])

\* The effects of the first render of a mount: the load effect, then the
\* save effect.
MountEffects == {"load", "save"}

\* The effects of a later render: the save effect when gameState or puzzle
\* is another object than in the render before.  A state that is not null
\* is a new object after every update; null stays null.
RenderEffects(before, after) ==
    IF /\ before.gameState = Null /\ after.gameState = Null
       /\ before.puzzle = Null /\ after.puzzle = Null
    THEN {}
    ELSE {"save"}

\* The host renders: React first runs the effects still due, so a render
\* finds none; the queued updates are applied, the callbacks are made anew
\* over the state they leave and the effects of the render become due.
Render ==
    /\ pending # <<>>
    /\ effects = {}
    /\ puzzle' = NextRender.puzzle
    /\ graph' = NextRender.graph
    /\ files' = NextRender.files
    /\ gameState' = NextRender.gameState
    /\ pending' = <<>>
    /\ effects' = RenderEffects([gameState |-> gameState, puzzle |-> puzzle], NextRender)
    /\ UNCHANGED <<storage, lastCall, mock>>

\* The load effect: the updates it queues for the item read.  Every
\* undo-stack entry the save effect wrote has a graph and a files field and
\* is kept as it is.
loadSavedGame(saved) ==
    IF saved = Null THEN <<>>
    ELSE IF saved.state.status # "playing" THEN <<>>
    ELSE
    With(deserializeGraph(saved.state.graph), LAMBDA restored :
    With(restoreState(restored, saved.state.files), LAMBDA newEngine :
    <<SetAll(saved.puzzle, newEngine, [saved.state EXCEPT !.graph = restored])>>))

\* The save effect run over the state (gs, p) of the last render: the item
\* it leaves.
saveGame(gs, p, item) ==
    IF gs # Null /\ p # Null THEN saveToStorage(toSave(gs, p)) ELSE item

\* React runs the effects that are due, in the order of the hook: the load
\* effect queues the session of the stored item behind the updates queued
\* since the render, the save effect stores the state of the last render.
Effects ==
    /\ effects # {}
    /\ pending' = IF "load" \in effects
                  THEN pending \o loadSavedGame(getFromStorage(storage))
                  ELSE pending
    /\ storage' = IF "save" \in effects THEN saveGame(gameState, puzzle, storage)
                  ELSE storage
    /\ effects' = {}
    /\ UNCHANGED <<puzzle, graph, files, gameState, lastCall, mock>>

\* useGame(): the state hooks of the first render, its effects due.
Init ==
    /\ puzzle = Null
    /\ graph = Null
    /\ files = Null
    /\ gameState = Null
    /\ pending = <<>>
    /\ effects = MountEffects
    /\ storage = Null
    /\ lastCall = Call("useGame", NoArg, NoArg, <<>>, TRUE, NoArg, FALSE)
    /\ mock = Null

\* startGame(): the updates it queues, initialCommitId being the hash
\* createTestPuzzle draws.
startGame(initialCommitId) ==
    LET newPuzzle == createTestPuzzle(initialCommitId)
        newEngine == GitEngine(newPuzzle)
        initialState == [puzzleId |-> newPuzzle.id,
                         graph |-> cloneGitGraph(newEngine.graph),
                         files |-> deepClone(newEngine.files),
                         commandHistory |-> <<>>,
                         undoStack |-> <<>>,
                         status |-> "playing",
                         commandsUsed |-> 0,
                         checkoutsUsed |-> 0,
                         parScore |-> newPuzzle.parScore]
    IN  <<SetAll(newPuzzle, newEngine, initialState)>>

\* resetGame(): the updates it queues; it also stores null.
resetGame == <<SetAll(Null, [graph |-> Null, files |-> Null], Null)>>

\* undo() called with the gameState its render captured (closure) on the
\* engine (g, fs): its return value, the engine after it and the updates it
\* queues.
undo(closure, g, fs) ==
    IF closure = Null \/ g = Null
    THEN [ok |-> FALSE, graph |-> g, files |-> fs, updates |-> <<>>]
    ELSE IF Len(closure.undoStack) = 0
    THEN [ok |-> FALSE, graph |-> g, files |-> fs, updates |-> <<>>]
    ELSE LET previousState == closure.undoStack[Len(closure.undoStack)]
             lastCommand == IF Len(closure.commandHistory) > 0
                            THEN closure.commandHistory[Len(closure.commandHistory)]
                            ELSE Null
             e == restoreState(previousState.graph, previousState.files)
         IN  [ok |-> TRUE, graph |-> e.graph, files |-> e.files,
              updates |-> <<UndoUpdater(lastCommand)>>]

\* The quota tests of executeCommand.
maxCommandsReached(closure, p) ==
    p # Null /\ closure.commandsUsed >= p.constraints.maxCommands

maxCheckoutsReached(closure, p) ==
    p # Null /\ closure.checkoutsUsed >= p.constraints.maxCheckouts

\* The value of a lookup that finds nothing: undefined.
NoType == NoArg

\* commandTypeMap[command]: the five entries of the object literal, and for
\* the names the object inherits from Object.prototype the inherited value,
\* which is no command type at all, written here as the string it becomes in
\* a message.
commandTypeMap(command) ==
    IF command \in {"commit", "checkout", "branch", "merge", "rebase"} THEN command
    ELSE IF command = "constructor" THEN "function Object() { [native code] }"
    ELSE IF command = "__proto__" THEN "[object Object]"
    ELSE NoType

\* What a call of executeCommand leaves and returns, with the command it
\* parsed and the arguments it handed to the engine.
Reply(g, fs, updates, command, args, success, message, gameWon) ==
    [graph |-> g, files |-> fs, updates |-> updates, command |-> command, args |-> args,
     success |-> success, message |-> message, gameWon |-> gameWon]

\* The arguments of the command handed to the engine.
commandArgs(commandType, commandString, parsed) ==
    IF commandType # "commit" THEN parsed.args
    ELSE
    With(messageMatch(commandString), LAMBDA match :
    IF match # Null THEN <<match.group>>
    ELSE IF \E i \in DOMAIN parsed.args : parsed.args[i] = "-m"
    THEN LET mIndex == CHOOSE i \in DOMAIN parsed.args :
                          /\ parsed.args[i] = "-m"
                          /\ \A j \in DOMAIN parsed.args : parsed.args[j] = "-m" => i <= j
         IN  <<Str(join([k \in 1..(Len(parsed.args) - mIndex) |->
                           Chars[parsed.args[mIndex + k]]]))>>
    ELSE <<"Commit">>)

\* executeCommand(commandString) called with the gameState and the puzzle
\* its render captured (closure, p) on the engine (g, fs): the tests and the
\* undo snapshot read the closure, the engine is changed at once, and the
\* change of the GameState is queued as an updater.
executeCommand(closure, p, g, fs, commandString, random) ==
    IF closure = Null \/ g = Null
    THEN Reply(g, fs, <<>>, NoArg, <<>>, FALSE, "No active game", FALSE)
    ELSE IF closure.status # "playing"
    THEN Reply(g, fs, <<>>, NoArg, <<>>, FALSE, "Game has ended", FALSE)
    ELSE
    With(parseGitCommand(commandString), LAMBDA parsed :
    IF parsed = Null
    THEN Reply(g, fs, <<>>, NoArg, <<>>, FALSE, "Commands must start with 'git'", FALSE)
    ELSE IF parsed.command = "undo"
    THEN With(undo(closure, g, fs), LAMBDA undoResult :
         Reply(undoResult.graph, undoResult.files, undoResult.updates,
               parsed.command, parsed.args, undoResult.ok,
               IF undoResult.ok THEN "Undid last command" ELSE "Nothing to undo",
               FALSE))
    ELSE IF maxCommandsReached(closure, p)
    THEN Reply(g, fs, <<>>, parsed.command, parsed.args, FALSE,
               "Maximum commands reached", FALSE)
    ELSE
    With(commandTypeMap(parsed.command), LAMBDA commandType :
    IF commandType = NoType
    THEN Reply(g, fs, <<>>, parsed.command, parsed.args, FALSE, "Unknown command", FALSE)
    ELSE IF commandType = "checkout" /\ maxCheckoutsReached(closure, p)
    THEN Reply(g, fs, <<>>, parsed.command, parsed.args, FALSE,
               "Maximum checkouts reached", FALSE)
    ELSE
    With(commandArgs(commandType, commandString, parsed), LAMBDA args :
    With([graph |-> cloneGitGraph(closure.graph), files |-> deepClone(closure.files)],
         LAMBDA previousState :
    With(engineExecuteCommand(g, fs, p.constraints, commandType, args, random),
         LAMBDA result :
    With([type |-> commandType, args |-> args,
          success |-> result.success, message |-> result.message],
         LAMBDA command :
    Reply(result.graph, result.files,
          IF result.success
          THEN <<CommandUpdater(command, commandType, previousState, result.gameWon)>>
          ELSE <<>>,
          parsed.command, args, result.success, result.message, result.gameWon)))))))

\* ------------------------------------------------------------------------
\* The sessions followed
\* ------------------------------------------------------------------------

\* The command lines typed.
CommandLines ==
    {"git commit", "git commit -m wip", "git commit -m 'wip'",
      "git commit -m", "GIT Commit", " git commit ", "commit", "git  commit",
      "git", "git branch", "git branch feature", "git branch b",
      "git branch main", "git branch a1b2c3d4", "git branch 8",
      "git checkout", "git checkout main", "git checkout feature",
      "git checkout b", "git checkout nosuch", "git checkout a1",
      "git checkout 1", "git checkout 8", "git checkout a1b2c3d4",
      "git merge", "git merge main", "git merge feature", "git merge b",
      "git merge nosuch", "git rebase", "git rebase main",
      "git rebase feature", "git rebase b", "git rebase nosuch", "git undo",
      "git status", "git constructor", "git __proto__"}

Times(n, line) == [i \in 1..n |-> line]

\* A win in seven commands: the three files are collected by commits and
\* the last commit is made on main.
WinByCommit ==
    <<"git commit", "git branch feature", "git checkout feature", "git commit",
      "git checkout main", "git commit", "git commit">>

\* Every file is collected and the last of them on feature, with HEAD back
\* on main.
AllCollectedOnFeature ==
    <<"git commit", "git branch feature", "git commit", "git commit",
      "git checkout feature", "git commit", "git checkout main">>

\* Commits up to maxCommits.
FifteenCommits == Times(14, "git commit")

\* Both quotas of the hook used up: maxCheckouts, then maxCommands.
TwentyCommands == Times(10, "git checkout main") \o Times(10, "git commit")

\* A rebase of main, seven commits long, onto a branch that left the root.
LongRebase ==
    <<"git branch b">> \o Times(7, "git commit")
    \o <<"git checkout b", "git commit", "git checkout main", "git rebase b">>

\* A rebase of feature, one commit long, onto main, one commit long.
ShortRebase ==
    <<"git branch feature", "git commit", "git checkout feature", "git commit",
      "git rebase main">>

Scripts ==
    {<<>>, WinByCommit, AllCollectedOnFeature, FifteenCommits, TwentyCommands,
     LongRebase, ShortRebase}

\* The command the hook records for a line of a script.
Recorded(line) ==
    With(parseGitCommand(line), LAMBDA parsed :
    [type |-> parsed.command, args |-> commandArgs(parsed.command, line, parsed)])

\* The commands of the scripts, in the form the history holds them.
ScriptCommands == [s \in Scripts |-> [i \in DOMAIN s |-> Recorded(s[i])]]

Greatest(S) == CHOOSE n \in S : \A m \in S : m <= n

\* The number of commands for which history and script agree.
Agreement(history, script) ==
    With(ScriptCommands[script], LAMBDA commands :
    Greatest({n \in 0..Len(script) :
                /\ n <= Len(history)
                /\ \A i \in 1..n : /\ history[i].type = commands[i].type
                                   /\ history[i].args = commands[i].args}))

\* The graph a session had after its first n commands.
GraphAfter(gs, n) ==
    IF n < Len(gs.undoStack) THEN gs.undoStack[n + 1].graph ELSE gs.graph

\* The files a session had after its first n commands.
FilesAfter(gs, n) ==
    IF n < Len(gs.undoStack) THEN gs.undoStack[n + 1].files ELSE gs.files

\* The hashes startGame can give the root commit.
RootHashes == generateCommitHash(Null, <<>>)

\* The engines (graph and files) in which the commands of a script are run
\* from the engine e on, and the one the last of them leaves, for as long as
\* the commands succeed, every hash drawn being new.
RECURSIVE ScriptRun(_, _, _)
ScriptRun(commands, constraints, e) ==
    IF commands = <<>> THEN <<e>>
    ELSE
    With(engineExecuteCommand(e.graph, e.files, constraints,
                              Head(commands).type, Head(commands).args,
                              FreshRun(e.graph, <<>>, Len(e.graph.commits))),
         LAMBDA result :
    IF result.success
    THEN <<e>> \o ScriptRun(Tail(commands), constraints,
                            [graph |-> result.graph, files |-> result.files])
    ELSE <<e>>)

\* The engines of each script, for each hash of the root commit.
ScriptEngines ==
    [script \in Scripts |->
        [root \in RootHashes |->
            ScriptRun(ScriptCommands[script], createTestPuzzle(root).constraints,
                      GitEngine(createTestPuzzle(root)))]]

\* The number of checkouts in a history.
Checkouts(history) ==
    Cardinality({i \in DOMAIN history : history[i].type = "checkout"})

\* The session had the graphs and the files of the script up to its n-th
\* command; of the graphs of the snapshots that were read back from the
\* stored item, the first stored of them, what is left is there, and the
\* session has run fewer than ReloadDepth commands since.
Agrees(gs, n, engines) ==
    /\ n < Len(engines)
    /\ \E stored \in 0..Len(gs.undoStack) :
          /\ stored > 0 => Len(gs.undoStack) - stored < ReloadDepth
          /\ \A i \in 0..n :
                /\ FilesAfter(gs, i) = engines[i + 1].files
                /\ GraphAfter(gs, i) = IF i < stored
                                       THEN JSONOfMapGraph(engines[i + 1].graph)
                                       ELSE engines[i + 1].graph

\* A session is followed from the states in which it has left some script
\* by fewer commands than the depth allows, having had the graphs and the
\* files of the script while it agreed with it, with counters that count
\* its history.
Follows(gs, script) ==
    \E n \in {Agreement(gs.commandHistory, script)} :
        /\ Len(gs.commandHistory) - n < (IF script = <<>> THEN FreeDepth ELSE ScriptDepth)
        /\ Len(gs.undoStack) = Len(gs.commandHistory)
        /\ gs.commandsUsed = Len(gs.commandHistory)
        /\ gs.checkoutsUsed = Checkouts(gs.commandHistory)
        /\ \E root \in RootHashes : Agrees(gs, n, ScriptEngines[script][root])

\* The session is followed: the one the last render showed, and with it the
\* engine it was rendered from, and with updates queued the one the next
\* render will show.
Followed ==
    /\ \A gs \in {gameState, NextRender.gameState} :
          IF gs = Null THEN TRUE ELSE \E script \in Scripts : Follows(gs, script)
    /\ (pending = <<>> /\ gameState # Null)
          => (graph = gameState.graph /\ files = gameState.files)

\* The number of commits rebase(targetBranch) replays on graph g.
Replayed(g, targetBranch) ==
    With(getCurrentBranch(g), LAMBDA currentBranch :
    IF targetBranch = NoArg \/ currentBranch = Null THEN 0
    ELSE IF ~HasBranch(g, targetBranch) THEN 0
    ELSE IF getCurrentCommit(g) = Null
            \/ GetCommit(g, g.branches[targetBranch].tipCommitId) = Null
    THEN 0
    ELSE Len(getCommitsBetween(g, currentBranch.tipCommitId,
                               g.branches[targetBranch].tipCommitId)))

\* The number of hashes a call of executeCommand draws at most: one for a
\* commit and for a merge, one for each commit a rebase replays.
Draws(g, commandString) ==
    With(parseGitCommand(commandString), LAMBDA parsed :
    IF g = Null \/ parsed = Null THEN 0
    ELSE IF commandTypeMap(parsed.command) \in {"commit", "merge"} THEN 1
    ELSE IF commandTypeMap(parsed.command) = "rebase"
    THEN Replayed(g, FirstArg(parsed.args))
    ELSE 0)

\* ------------------------------------------------------------------------
\* The calls of the host.  A call changes the engine at once and queues its
\* updates of the state; the host renders after one call or after several.
\* ------------------------------------------------------------------------

\* Nothing is queued: the host has rendered since the last call that queued
\* an update.
Rendered == pending = <<>>

\* The command lines typed in a call made while updates are queued.
PairLines ==
    {"git commit", "git branch feature", "git checkout feature", "git checkout main",
     "git undo", "git status"}

\* The command lines typed in a call made before the effects of the last
\* render have run.
DueLines == {"git commit", "git undo"}

\* The command lines typed in a call: the given ones when nothing is queued
\* and no effect is due.
Typing(lines) ==
    IF effects # {} THEN DueLines
    ELSE IF Rendered THEN lines
    ELSE PairLines

\* The host makes a call: after a render, before its effects have run while
\* fewer than MaxDuePending updates are queued, or before the next render
\* while fewer than MaxPending updates are queued.
Calls == Len(pending) < (IF effects = {} THEN MaxPending ELSE MaxDuePending)

StartGame ==
    /\ Calls
    /\ Followed
    /\ \E initialCommitId \in RootHashes :
          pending' = pending \o startGame(initialCommitId)
    /\ lastCall' = Call("startGame", NoArg, NoArg, <<>>, TRUE, NoArg, FALSE)
    /\ UNCHANGED <<puzzle, graph, files, gameState, effects, storage, mock>>

ResetGame ==
    /\ Calls
    /\ Followed
    /\ pending' = pending \o resetGame
    /\ storage' = saveToStorage(Null)
    /\ lastCall' = Call("resetGame", NoArg, NoArg, <<>>, TRUE, NoArg, FALSE)
    /\ UNCHANGED <<puzzle, graph, files, gameState, effects, mock>>

\* A call of executeCommand with the state of the last render in its
\* closure, drawing one of the given runs of hashes.
ExecuteDrawing(commandString, runs) ==
    \E random \in runs :
    \E r \in {executeCommand(gameState, puzzle, graph, files, commandString, random)} :
        /\ graph' = r.graph
        /\ files' = r.files
        /\ pending' = pending \o r.updates
        /\ lastCall' = Call("executeCommand", commandString, r.command, r.args,
                            r.success, r.message, r.gameWon)
        /\ UNCHANGED <<puzzle, gameState, effects, storage, mock>>

\* A call of executeCommand; the draws that are not new are followed in the
\* calls made once the effects of the last render have run.
Execute(commandString) ==
    ExecuteDrawing(commandString,
                   RandomRuns(graph, <<>>, Draws(graph, commandString),
                              IF effects = {} THEN OddDraws ELSE 0))

ExecuteCommand ==
    /\ Calls
    /\ Followed
    /\ \E commandString \in Typing(CommandLines) :
          Execute(commandString)

\* The command lines typed in the sessions that are reloaded.
FewLines ==
    {"git commit", "git branch feature", "git checkout feature", "git checkout main",
     "git checkout 1", "git merge feature", "git rebase main", "git undo", "git status"}

ExecuteFewCommands ==
    /\ Calls
    /\ Followed
    /\ \E commandString \in Typing(FewLines) :
          Execute(commandString)

\* The hook's undo called directly by the host.
UndoCall ==
    \E u \in {undo(gameState, graph, files)} :
        /\ graph' = u.graph
        /\ files' = u.files
        /\ pending' = pending \o u.updates
        /\ lastCall' = Call("undo", NoArg, "undo", <<>>, u.ok,
                            IF u.ok THEN "Undid last command" ELSE "Nothing to undo",
                            FALSE)
        /\ UNCHANGED <<puzzle, gameState, effects, storage, mock>>

Undo ==
    /\ Calls
    /\ Followed
    /\ UndoCall

Next ==
    \/ StartGame
    \/ ResetGame
    \/ ExecuteCommand
    \/ Undo
    \/ Render
    \/ Effects

Spec == Init /\ [][Next]_vars

\* ------------------------------------------------------------------------
\* A new mount of the hook (the page is loaded again)
\* ------------------------------------------------------------------------

\* The hook is mounted anew: its state hooks are null again, the updates
\* that were queued and the effects that were due are lost with the old
\* page, and the effects of the first render are due.
Reload ==
    /\ Followed
    /\ puzzle' = Null
    /\ graph' = Null
    /\ files' = Null
    /\ gameState' = Null
    /\ pending' = <<>>
    /\ effects' = MountEffects
    /\ lastCall' = Call("useGame", NoArg, NoArg, <<>>, TRUE, NoArg, FALSE)
    /\ UNCHANGED <<storage, mock>>

NextStorage ==
    \/ StartGame
    \/ ResetGame
    \/ ExecuteFewCommands
    \/ Undo
    \/ Render
    \/ Effects
    \/ Reload

SpecStorage == Init /\ [][NextStorage]_vars

\* ------------------------------------------------------------------------
\* A mount that finds the session of a puzzle with fewer allowed commands
\* ------------------------------------------------------------------------

\* The allowedCommands of the puzzles stored: all commands but undo, and
\* commit, checkout and merge alone.
StoredAllowedCommands ==
    {AllCommands \ {"undo"}, {"commit", "checkout", "merge"}}

\* The item of localStorage that holds the session startGame begins, of a
\* puzzle like the one of createTestPuzzle but for its allowedCommands.
StoredSession(initialCommitId, allowedCommands) ==
    With(startGame(initialCommitId)[1], LAMBDA started :
    saveToStorage(toSave(started.gameState,
                         [started.puzzle EXCEPT
                            !.constraints.allowedCommands = allowedCommands])))

\* useGame() mounted on a page whose localStorage holds such an item.
InitStored ==
    /\ puzzle = Null
    /\ graph = Null
    /\ files = Null
    /\ gameState = Null
    /\ pending = <<>>
    /\ effects = MountEffects
    /\ \E allowedCommands \in StoredAllowedCommands :
          storage = StoredSession(FreshHash(Null, <<>>), allowedCommands)
    /\ lastCall = Call("useGame", NoArg, NoArg, <<>>, TRUE, NoArg, FALSE)
    /\ mock = Null

NextStored ==
    \/ StartGame
    \/ ResetGame
    \/ ExecuteFewCommands
    \/ Undo
    \/ Render
    \/ Effects

SpecStored == InitStored /\ [][NextStored]_vars

\* ------------------------------------------------------------------------
\* The mock backend (mockApi)
\* ------------------------------------------------------------------------

\* The largest commitCounter, commandCount and checkoutCount a session of
\* the mock backend is followed up to, and the number of commands sent
\* before the first startGame.
MaxMockCommits == 5

MaxMockCommands == 2

MaxMockCheckouts == 1

MaxMockEarly == 1

\* The value undefined where an id is expected; as a property key it is the
\* string 'undefined'.
Undefined == "undefined"

\* The names every object inherits from Object.prototype.
ObjectPrototypeNames ==
    {"constructor", "__proto__", "hasOwnProperty", "isPrototypeOf",
     "propertyIsEnumerable", "toLocaleString", "toString", "valueOf",
     "__defineGetter__", "__defineSetter__", "__lookupGetter__",
     "__lookupSetter__"}

MockFile(id, b, d) == [id |-> id, branch |-> b, depth |-> d, collected |-> FALSE]

mockPuzzle ==
    [fileTargets |-> <<MockFile("file-1", "main", 2), MockFile("file-2", "feature-a", 3),
                       MockFile("file-3", "feature-b", 2), MockFile("file-4", "hotfix", 1)>>,
     constraints |-> [maxCommands |-> 15, maxCheckouts |-> 5,
                      maxConsecutiveCommits |-> 3]]

\* A commit; its message is given as the strings it is put together of.
MockCommit(id, message, parents, b, depth) ==
    [id |-> id, message |-> message, parents |-> parents, branch |-> b, depth |-> depth]

MockBranch(name, tip) == [name |-> name, tipCommitId |-> tip]

\* The commits object holds its commits in the order their keys were added.
\* The branches object holds its own properties and its prototype: <<>>
\* for Object.prototype, or the object 'branches.__proto__ = ...' has put
\* in its place.
mockGraph ==
    [commits |-> <<MockCommit("commit-0", <<"Initial commit">>, <<>>, "main", 0),
                   MockCommit("commit-1", <<"Add feature A base">>, <<"commit-0">>,
                              "feature-a", 1),
                   MockCommit("commit-2", <<"Add feature B base">>, <<"commit-0">>,
                              "feature-b", 1)>>,
     branches |-> [own |-> [b \in {"main", "feature-a", "feature-b", "hotfix"} |->
                              MockBranch(b, CASE b = "feature-a" -> "commit-1"
                                              [] b = "feature-b" -> "commit-2"
                                              [] OTHER -> "commit-0")],
                   proto |-> <<>>],
     head |-> [type |-> "attached", ref |-> "main"]]

\* score is -1 for null.
mockGameState ==
    [puzzle |-> mockPuzzle, graph |-> mockGraph,
     collectedFiles |-> <<>>, commandHistory |-> <<>>, commandCount |-> 0,
     checkoutCount |-> 0, consecutiveCommits |-> 0, status |-> "in_progress",
     score |-> -1]

\* JSON.parse(JSON.stringify(g)): the own properties, under Object.prototype.
cloneGraph(g) == [g EXCEPT !.branches.proto = <<>>]

\* `commit-${n}`
MockCommitIds == <<"commit-0", "commit-1", "commit-2", "commit-3", "commit-4",
                   "commit-5", "commit-6", "commit-7">>

\* generateCommitId(): the id of the counter, and the counter moved.
generateCommitId(commitCounter) ==
    [id |-> MockCommitIds[commitCounter + 1], commitCounter |-> commitCounter + 1]

\* graph.branches[key]: what kind of value it is and its tipCommitId.  An
\* own property is a branch; '__proto__' is the prototype; 'name' and
\* 'tipCommitId' are inherited from a prototype put in place; the names of
\* Object.prototype are its functions; anything else is undefined.
MockValue(kind, tipCommitId) == [kind |-> kind, tipCommitId |-> tipCommitId]

getBranch(branches, key) ==
    IF key \in DOMAIN branches.own
    THEN MockValue("branch", branches.own[key].tipCommitId)
    ELSE IF key = "__proto__"
    THEN IF branches.proto = <<>> THEN MockValue("Object.prototype", Undefined)
         ELSE MockValue("prototype", branches.proto[1].tipCommitId)
    ELSE IF branches.proto # <<>> /\ key = "name"
    THEN MockValue("string", Undefined)
    ELSE IF branches.proto # <<>> /\ key = "tipCommitId"
    THEN IF branches.proto[1].tipCommitId = Undefined
         THEN MockValue("undefined", Undefined)
         ELSE MockValue("string", Undefined)
    ELSE IF key \in ObjectPrototypeNames THEN MockValue("function", Undefined)
    ELSE MockValue("undefined", Undefined)

\* if (value)
Truthy(value) == value.kind # "undefined"

\* graph.branches[key] = added: '__proto__' takes the object as prototype
\* and adds no property.
setBranch(branches, key, added) ==
    IF key = "__proto__" THEN [branches EXCEPT !.proto = <<added>>]
    ELSE [branches EXCEPT !.own =
            [b \in DOMAIN branches.own \cup {key} |->
               IF b = key THEN added ELSE branches.own[b]]]

\* graph.branches[key].tipCommitId = id, of a branch or of the prototype
\* put in place.
setTip(branches, key, id) ==
    IF key \in DOMAIN branches.own
    THEN [branches EXCEPT !.own[key].tipCommitId = id]
    ELSE [branches EXCEPT !.proto[1].tipCommitId = id]

\* graph.commits[id] is a commit.
HasMockCommit(g, id) == \E i \in DOMAIN g.commits : g.commits[i].id = id

\* graph.commits[id]
MockGetCommit(g, id) ==
    LET i == CHOOSE i \in DOMAIN g.commits : g.commits[i].id = id
    IN  g.commits[i]

\* if (graph.commits[key])
TruthyCommit(g, key) ==
    HasMockCommit(g, key) \/ key \in ObjectPrototypeNames

\* graph.commits[added.id] = added: the commit of that key is replaced
\* where it is, a new key is added last.
setCommit(commits, added) ==
    IF \E i \in DOMAIN commits : commits[i].id = added.id
    THEN [i \in DOMAIN commits |->
            IF commits[i].id = added.id THEN added ELSE commits[i]]
    ELSE Append(commits, added)

\* What a call of sendCommand leaves: the state, the counter, the error it
\* returns, if any, and whether it threw a TypeError instead of returning.
MockReply(st, commitCounter, error, thrown) ==
    [state |-> st, commitCounter |-> commitCounter, error |-> error, thrown |-> thrown]

\* The branch HEAD is attached to, NoArg for null.
mockCurrentBranch(g) == IF g.head.type = "attached" THEN g.head.ref ELSE NoArg

\* case 'commit'
mockCommit(st, commitCounter, message) ==
    LET g == st.graph
        currentBranch == mockCurrentBranch(g)
        attached == getBranch(g.branches, currentBranch)
        currentCommitId == IF currentBranch # NoArg THEN attached.tipCommitId
                           ELSE g.head.ref
        generated == generateCommitId(commitCounter)
        newCommitId == generated.id
        newDepth == MockGetCommit(g, currentCommitId).depth + 1
        fs == st.puzzle.fileTargets
        g1 == [g EXCEPT !.commits =
                 setCommit(g.commits,
                           MockCommit(newCommitId, <<message>>, <<currentCommitId>>,
                                      IF currentBranch # NoArg THEN currentBranch
                                      ELSE "detached", newDepth))]
        g2 == IF currentBranch # NoArg
              THEN [g1 EXCEPT !.branches = setTip(g.branches, currentBranch, newCommitId)]
              ELSE [g1 EXCEPT !.head.ref = newCommitId]
        found == {i \in DOMAIN fs : /\ fs[i].branch = currentBranch
                                     /\ currentBranch # NoArg
                                     /\ fs[i].depth = newDepth
                                     /\ ~fs[i].collected}
        i == CHOOSE i \in found : \A j \in found : i <= j
    IN  IF currentBranch # NoArg /\ ~Truthy(attached)
        THEN MockReply(st, commitCounter, NoArg, TRUE)
        ELSE IF ~HasMockCommit(g, currentCommitId)
        THEN MockReply(st, generated.commitCounter, NoArg, TRUE)
        ELSE MockReply([st EXCEPT
                          !.graph = g2,
                          !.puzzle.fileTargets =
                              IF found # {} THEN [fs EXCEPT ![i].collected = TRUE]
                              ELSE fs,
                          !.collectedFiles =
                              IF found # {} THEN Append(st.collectedFiles, fs[i].id)
                              ELSE st.collectedFiles,
                          !.consecutiveCommits = st.consecutiveCommits + 1],
                       generated.commitCounter, NoArg, FALSE)

\* case 'checkout'
mockCheckout(st, commitCounter, target) ==
    MockReply([st EXCEPT
                 !.graph.head =
                     IF Truthy(getBranch(st.graph.branches, target))
                     THEN [type |-> "attached", ref |-> target]
                     ELSE IF TruthyCommit(st.graph, target)
                     THEN [type |-> "detached", ref |-> target]
                     ELSE st.graph.head,
                 !.checkoutCount = st.checkoutCount + 1,
                 !.consecutiveCommits = 0],
              commitCounter, NoArg, FALSE)

\* case 'merge'
mockMerge(st, commitCounter, branchName) ==
    LET g == st.graph
        currentBranch == mockCurrentBranch(g)
        targetBranch == getBranch(g.branches, branchName)
        attached == getBranch(g.branches, currentBranch)
        currentTip == attached.tipCommitId
        targetTip == targetBranch.tipCommitId
        generated == generateCommitId(commitCounter)
        newCommitId == generated.id
        currentDepth == MockGetCommit(g, currentTip).depth
        targetDepth == MockGetCommit(g, targetTip).depth
        g1 == [g EXCEPT
                 !.commits =
                     setCommit(g.commits,
                               MockCommit(newCommitId,
                                          <<"Merge ", branchName, " into ", currentBranch>>,
                                          <<currentTip, targetTip>>, currentBranch,
                                          MathMax(currentDepth, targetDepth) + 1)),
                 !.branches = setTip(g.branches, currentBranch, newCommitId)]
        allCollected == \A i \in DOMAIN st.puzzle.fileTargets :
                            st.puzzle.fileTargets[i].collected
    IN  IF currentBranch = NoArg
        THEN MockReply(st, commitCounter, "Cannot merge in detached HEAD state", FALSE)
        ELSE IF ~Truthy(targetBranch)
        THEN MockReply(st, commitCounter, "Branch not found", FALSE)
        ELSE IF ~Truthy(attached)
        THEN MockReply(st, commitCounter, NoArg, TRUE)
        ELSE IF ~HasMockCommit(g, currentTip) \/ ~HasMockCommit(g, targetTip)
        THEN MockReply(st, generated.commitCounter, NoArg, TRUE)
        ELSE MockReply(IF allCollected /\ currentBranch = "main"
                       THEN [st EXCEPT
                               !.graph = g1,
                               !.consecutiveCommits = 0,
                               !.status = "completed",
                               !.score = MathMax(0, 100 - (st.commandCount - 8) * 5)]
                       ELSE [st EXCEPT !.graph = g1, !.consecutiveCommits = 0],
                       generated.commitCounter, NoArg, FALSE)

\* case 'rebase'
mockRebase(st, commitCounter) ==
    MockReply([st EXCEPT !.consecutiveCommits = 0], commitCounter, NoArg, FALSE)

\* case 'branch'
mockBranch(st, commitCounter, name) ==
    LET g == st.graph
        attached == getBranch(g.branches, g.head.ref)
        currentCommitId == IF g.head.type = "attached" THEN attached.tipCommitId
                           ELSE g.head.ref
    IN  IF g.head.type = "attached" /\ ~Truthy(attached)
        THEN MockReply(st, commitCounter, NoArg, TRUE)
        ELSE MockReply([st EXCEPT
                          !.graph.branches =
                              setBranch(g.branches, name,
                                        MockBranch(name, currentCommitId))],
                       commitCounter, NoArg, FALSE)

\* mockApi.sendCommand: undo only pops the history and lowers the count;
\* a command of any other type is pushed and counted before it is
\* processed, and not processed at all when its type is none of the switch.
sendCommand(st, commitCounter, type, arg) ==
    IF type = "undo"
    THEN IF Len(st.commandHistory) = 0
         THEN MockReply(st, commitCounter, "Nothing to undo", FALSE)
         ELSE MockReply([st EXCEPT
                           !.commandHistory = SubSeq(st.commandHistory, 1,
                                                     Len(st.commandHistory) - 1),
                           !.commandCount = MathMax(0, st.commandCount - 1)],
                        commitCounter, NoArg, FALSE)
    ELSE
    LET st1 == [st EXCEPT
                  !.commandHistory = Append(st.commandHistory,
                                            [type |-> type, args |-> arg]),
                  !.commandCount = st.commandCount + 1]
    IN  CASE type = "commit" -> mockCommit(st1, commitCounter, arg)
          [] type = "checkout" -> mockCheckout(st1, commitCounter, arg)
          [] type = "merge" -> mockMerge(st1, commitCounter, arg)
          [] type = "rebase" -> mockRebase(st1, commitCounter)
          [] type = "branch" -> mockBranch(st1, commitCounter, arg)
          [] OTHER -> MockReply(st1, commitCounter, NoArg, FALSE)

\* mockApi.startGame: the counter is 3 again and the state is made anew of
\* copies of mockPuzzle and mockGraph as they are by now.
mockStartGame(m) ==
    [m EXCEPT
       !.state = [mockGameState EXCEPT
                    !.puzzle = m.mockPuzzle,
                    !.graph = cloneGraph(m.mockGraph)],
       !.commitCounter = 3,
       !.started = TRUE]

\* A call of the mock backend.
MockCall(op, command, error, thrown) ==
    [op |-> op, command |-> command, error |-> error, thrown |-> thrown]

\* The module as it is loaded: currentGameState is a shallow copy of
\* mockGameState, so that until the first startGame its graph and its puzzle
\* are mockGraph and mockPuzzle themselves.
InitMock ==
    /\ puzzle = Null
    /\ graph = Null
    /\ files = Null
    /\ gameState = Null
    /\ pending = <<>>
    /\ effects = {}
    /\ storage = Null
    /\ lastCall = MockCall("import", NoArg, NoArg, FALSE)
    /\ mock = [state |-> mockGameState, commitCounter |-> 3,
               mockPuzzle |-> mockPuzzle, mockGraph |-> mockGraph,
               started |-> FALSE]

MockStartGame ==
    /\ mock' = mockStartGame(mock)
    /\ lastCall' = MockCall("startGame", NoArg, NoArg, FALSE)
    /\ UNCHANGED <<puzzle, graph, files, gameState, pending, effects, storage>>

\* The arguments of the commands sent to the mock backend.
MockArgsOf(type) ==
    CASE type = "commit" -> {"wip"}
      [] type = "checkout" -> {"feature-b", "commit-0", "nosuch", "constructor",
                               "__proto__"}
      [] type = "merge" -> {"feature-b", "nosuch", "constructor"}
      [] type = "branch" -> {"b", "__proto__"}
      [] OTHER -> {NoArg}

\* A call of sendCommand; what it does to the state it does to mockGraph
\* and mockPuzzle as long as the state holds them.
SendCommand(type) ==
    /\ type = "undo" \/ mock.state.commandCount < MaxMockCommands
    /\ type \in {"commit", "merge"} => mock.commitCounter < MaxMockCommits
    /\ type = "checkout" => mock.state.checkoutCount < MaxMockCheckouts
    /\ ~mock.started => Len(mock.state.commandHistory) < MaxMockEarly
    /\ \E arg \in MockArgsOf(type) :
       \E reply \in {sendCommand(mock.state, mock.commitCounter, type, arg)} :
          /\ mock' = [mock EXCEPT
                        !.state = reply.state,
                        !.commitCounter = reply.commitCounter,
                        !.mockPuzzle = IF mock.started THEN mock.mockPuzzle
                                       ELSE reply.state.puzzle,
                        !.mockGraph = IF mock.started THEN mock.mockGraph
                                      ELSE reply.state.graph]
          /\ lastCall' = MockCall("sendCommand", type, reply.error, reply.thrown)
    /\ UNCHANGED <<puzzle, graph, files, gameState, pending, effects, storage>>

MockCommitCommand == SendCommand("commit")
MockCheckoutCommand == SendCommand("checkout")
MockMergeCommand == SendCommand("merge")
MockRebaseCommand == SendCommand("rebase")
MockBranchCommand == SendCommand("branch")
MockUndoCommand == SendCommand("undo")
MockOtherCommand == SendCommand("status")

NextMock ==
    \/ MockStartGame
    \/ MockCommitCommand
    \/ MockCheckoutCommand
    \/ MockMergeCommand
    \/ MockRebaseCommand
    \/ MockBranchCommand
    \/ MockUndoCommand
    \/ MockOtherCommand

SpecMock == InitMock /\ [][NextMock]_vars

\* ------------------------------------------------------------------------
\* calculateScore (utils.ts)
\* ------------------------------------------------------------------------

\* The largest commandsUsed and parScore calculateScore is called with.
MaxScoreCommands == 20
MaxParScore == 8

\* calculateScore without the minimum of 10.
calculateScore_noMinimum(commandsUsed, parScore) ==
    LET diff == parScore - commandsUsed
        baseScore == 100
    IN  IF diff >= 0 THEN baseScore + (diff * 20)
        ELSE baseScore + (diff * 10)

calculateScore(commandsUsed, parScore) ==
    LET diff == parScore - commandsUsed
        baseScore == 100
    IN  IF diff >= 0 THEN baseScore + (diff * 20)
        ELSE MathMax(10, baseScore + (diff * 10))

\* A call of calculateScore: its arguments and, once it has returned, its
\* result.
ScoreCall(commandsUsed, parScore, returned, score) ==
    [op |-> "calculateScore", commandsUsed |-> commandsUsed, parScore |-> parScore,
     returned |-> returned, score |-> score]

InitScore ==
    /\ puzzle = Null
    /\ graph = Null
    /\ files = Null
    /\ gameState = Null
    /\ pending = <<>>
    /\ effects = {}
    /\ storage = Null
    /\ mock = Null
    /\ \E commandsUsed \in 0..MaxScoreCommands, parScore \in 0..MaxParScore :
          lastCall = ScoreCall(commandsUsed, parScore, FALSE, 0)

\* calculateScore returns for the arguments it was called with.
CalculateScore ==
    /\ ~lastCall.returned
    /\ lastCall' = ScoreCall(lastCall.commandsUsed, lastCall.parScore, TRUE,
                             calculateScore(lastCall.commandsUsed, lastCall.parScore))
    /\ UNCHANGED <<puzzle, graph, files, gameState, pending, effects, storage, mock>>

\* calculateScore is called again for the same par and more commands.
CalculateScoreAgain ==
    /\ lastCall.returned
    /\ \E commandsUsed \in (lastCall.commandsUsed + 1)..MaxScoreCommands :
          lastCall' = ScoreCall(commandsUsed, lastCall.parScore, TRUE,
                                calculateScore(commandsUsed, lastCall.parScore))
    /\ UNCHANGED <<puzzle, graph, files, gameState, pending, effects, storage, mock>>

NextScore ==
    \/ CalculateScore
    \/ CalculateScoreAgain

SpecScore == InitScore /\ [][NextScore]_vars

\* ------------------------------------------------------------------------
\* Vocabulary of the properties
\* ------------------------------------------------------------------------

Tip(g, b) == g.branches[b].tipCommitId

\* The id of the commit HEAD resolves to.
HeadCommitId(g) == IF g.isDetached THEN g.headRef ELSE Tip(g, g.headRef)

ParentsOf(g, id) ==
    UNION {{g.commits[i].parentIds[k] : k \in DOMAIN g.commits[i].parentIds} :
              i \in {j \in DOMAIN g.commits : g.commits[j].id = id}}

\* ids and everything reachable from them over parent edges.
RECURSIVE Closure(_, _)
Closure(g, ids) ==
    LET next == ids \cup UNION {ParentsOf(g, id) : id \in ids}
    IN  IF next = ids THEN ids ELSE Closure(g, next)

\* id and its ancestors.
Ancestors(g, id) == Closure(g, {id})

Roots(g) == {i \in DOMAIN g.commits : g.commits[i].parentIds = <<>>}

WellFormed(g) ==
    /\ \A b \in DOMAIN g.branches : Tip(g, b) \in CommitIds(g)
    /\ \A i \in DOMAIN g.commits : ParentsOf(g, g.commits[i].id) \subseteq CommitIds(g)
    /\ Cardinality(Roots(g)) = 1
    /\ \A i \in Roots(g) : g.commits[i].depth = 0
    /\ IF g.isDetached THEN g.headRef \in CommitIds(g)
                       ELSE g.headRef \in DOMAIN g.branches

\* The GameState the next render shows: the session as the calls made so
\* far leave it.
Shown == NextRender.gameState

\* The last render shows a session and no call has ended it since.
Playing == gameState # Null /\ Shown # Null

\* The step is a call of the host, not a render and not the run of the
\* effects that are due.
Called ==
    /\ pending = <<>> \/ pending' # <<>>
    /\ effects = {} \/ effects' # {}

\* The step is a call of executeCommand made in a session.
Typed ==
    /\ Called
    /\ Playing
    /\ lastCall'.op = "executeCommand"

\* The step is a call of executeCommand that parsed the given command.
Ran(command) == Typed /\ lastCall'.command = command

\* The step is a call that parsed the given command and succeeded.
Succeeded(command) == Ran(command) /\ lastCall'.success

\* The step is a successful command other than undo.
Executed == Typed /\ lastCall'.command # "undo" /\ lastCall'.success

\* The step is an undo, typed or called directly.
UndoRequested ==
    /\ Called
    /\ lastCall'.op \in {"executeCommand", "undo"}
    /\ lastCall'.command = "undo"

\* The step is a successful undo.
Undone == UndoRequested /\ Playing /\ lastCall'.success

\* The step leaves the engine and the session as they were.
NothingChanged ==
    /\ graph' = graph
    /\ files' = files
    /\ Shown' = Shown

\* The (graph, fileTargets) pair the engine holds.
EnginePair == [graph |-> graph, files |-> files]

\* The hook hands the command of the step to the engine.
ReachesEngine ==
    /\ gameState.status = "playing"
    /\ gameState.commandsUsed < puzzle.constraints.maxCommands

MaxOf(a, b) == IF a >= b THEN a ELSE b

\* The names given to branches.
BranchNames == {"main", "feature", "b", "a1b2c3d4", "8"}

\* The targets given to checkout.
CheckoutTargets == {"main", "feature", "b", "nosuch", "a1", "1", "8", "a1b2c3d4"}

\* ------------------------------------------------------------------------
\* Properties
\* ------------------------------------------------------------------------

\* C1: in every reachable state every branch tip and every parent id names
\* a commit of the graph, exactly one commit has no parents and its depth
\* is 0, and HEAD names an existing branch when attached and an existing
\* commit when detached.
C1_GraphWellFormed ==
    /\ graph # Null => WellFormed(graph)
    /\ gameState # Null => WellFormed(gameState.graph)

\* C2: every successful command leaves the pair that held before it on top
\* of the undo stack, and undo puts the engine and the session back to the
\* top pair and pops it; so with every command undone the graph and the
\* files' flags are those of the puzzle's initial state.
C2_UndoRoundTrip ==
    /\ []((Rendered /\ Playing) =>
            (Len(gameState.undoStack) = 0 =>
                /\ graph = puzzle.initialGraph
                /\ files = puzzle.files
                /\ gameState.graph = puzzle.initialGraph
                /\ gameState.files = puzzle.files))
    /\ [][/\ Executed => Shown'.undoStack = Append(Shown.undoStack, EnginePair)
          /\ Undone =>
               /\ Len(Shown.undoStack) > 0
               /\ EnginePair' = Shown.undoStack[Len(Shown.undoStack)]
               /\ Shown'.graph = graph'
               /\ Shown'.files = files'
               /\ Shown'.undoStack = Front(Shown.undoStack)]_vars

\* C3: a command that returns success = false leaves the graph, the files,
\* commandsUsed, checkoutsUsed, commandHistory and the undo stack as they
\* were.
C3_FailureChangesNothing ==
    [][(Called /\ lastCall'.op = "executeCommand" /\ ~lastCall'.success)
          => NothingChanged]_vars

\* A checkout of a target that matches no branch and no commit has failed
\* in a session that has already run commands.
C3_Witness ==
    /\ Rendered
    /\ Playing
    /\ ~lastCall.success
    /\ lastCall.message = "pathspec did not match any branch or commit"
    /\ gameState.commandsUsed >= 1

\* The index of the command that collected the final file: the last
\* command before which some file was still uncollected.
FinalCollection(gs) ==
    LET open == {i \in DOMAIN gs.undoStack : ~allFilesCollected(gs.undoStack[i].files)}
    IN  IF open = {} THEN 0 ELSE CHOOSE i \in open : \A j \in open : j <= i

\* C4: when a command has just won the session, the history holds a
\* successful merge or rebase at or after the command that collected the
\* final file.
C4_WinNeedsMergeOrRebase ==
    (Rendered /\ Playing) =>
        ((lastCall.gameWon /\ gameState.status = "won") =>
            \E i \in DOMAIN gameState.commandHistory :
                /\ i >= FinalCollection(gameState)
                /\ gameState.commandHistory[i].type \in {"merge", "rebase"})

\* C5: a successful command reports gameWon, and the session becomes won,
\* exactly when after it every file is collected and the command moved the
\* tip of main while HEAD was attached to main.
C5_WonIffMainAdvanced ==
    [][(Typed /\ lastCall'.success /\ lastCall'.command # "undo") =>
         /\ lastCall'.gameWon <=>
              /\ allFilesCollected(files')
              /\ ~graph.isDetached /\ graph.headRef = "main"
              /\ ~graph'.isDetached /\ graph'.headRef = "main"
              /\ Tip(graph', "main") # Tip(graph, "main")
         /\ lastCall'.gameWon <=> Shown'.status = "won"]_vars

\* The commits of g that sit at the position of file f.
CommitsAt(g, f) ==
    {g.commits[i].id : i \in {j \in DOMAIN g.commits :
        g.commits[j].branch = f.branch /\ g.commits[j].depth = f.depth}}

\* C6: in every state whose status is won, each file has a commit at its
\* position that is reachable from main's tip over parent edges.
C6_WonMeansMergedIntoMain ==
    (Rendered /\ Playing) =>
        (gameState.status = "won" =>
            \A i \in DOMAIN files :
                CommitsAt(graph, files[i]) \cap Ancestors(graph, Tip(graph, "main")) # {})

\* HEAD is attached to an existing branch, T exists, and the step hands
\* merge(T) to the engine.
MergeStep(T) ==
    /\ Ran("merge")
    /\ lastCall'.args = <<T>>
    /\ ReachesEngine
    /\ ~graph.isDetached
    /\ HasBranch(graph, graph.headRef)
    /\ HasBranch(graph, T)

\* C7: with HEAD attached to B and B's tip an ancestor of, or equal to, T's
\* tip, merge(T) succeeds, adds no commit, and leaves B's tip equal to T's
\* tip, with T's tip and HEAD unchanged.
C7_FastForward ==
    [][\A T \in BranchNames :
         (MergeStep(T) /\ Tip(graph, graph.headRef) \in Ancestors(graph, Tip(graph, T))) =>
            /\ lastCall'.success
            /\ graph'.commits = graph.commits
            /\ Tip(graph', graph.headRef) = Tip(graph, T)
            /\ Tip(graph', T) = Tip(graph, T)
            /\ graph'.headRef = graph.headRef
            /\ graph'.isDetached = graph.isDetached
            /\ Shown'.graph = graph']_vars

\* C8: with HEAD attached to B and B's tip not an ancestor of T's tip,
\* merge(T) adds exactly one commit, with parentIds [B's previous tip, T's
\* tip] and depth max(depth of the two parents) + 1, moves B's tip to it
\* and leaves T's tip unchanged.
C8_MergeCommit ==
    [][\A T \in BranchNames :
         (MergeStep(T) /\ Tip(graph, graph.headRef) \notin Ancestors(graph, Tip(graph, T))) =>
            /\ lastCall'.success
            /\ Len(graph'.commits) = Len(graph.commits) + 1
            /\ SubSeq(graph'.commits, 1, Len(graph.commits)) = graph.commits
            /\ LET B == graph.headRef
                   new == graph'.commits[Len(graph'.commits)]
               IN  /\ new.id \notin CommitIds(graph)
                   /\ new.parentIds = <<Tip(graph, B), Tip(graph, T)>>
                   /\ new.depth = MaxOf(GetCommit(graph, Tip(graph, B)).depth,
                                        GetCommit(graph, Tip(graph, T)).depth) + 1
                   /\ Tip(graph', B) = new.id
            /\ Tip(graph', T) = Tip(graph, T)
            /\ Shown'.graph = graph']_vars

\* The branch a rebase or a merge of the step was given.
Onto == lastCall'.args[1]

\* The commits rebase(onto) selects for replay in graph g.
SelectedForReplay(g, onto) ==
    getCommitsBetween(g, Tip(g, g.headRef), Tip(g, onto))

BranchReachable(g) == UNION {Ancestors(g, Tip(g, b)) : b \in DOMAIN g.branches}

\* C9: a successful rebase(onto) adds as many commits as it selected for
\* replay, keeps every pre-rebase commit in the graph under its id, and
\* leaves none of the replayed original commits at, or reachable from, the
\* tip of any branch.
C9_RebaseConservation ==
    [][Succeeded("rebase") =>
         LET selected == SelectedForReplay(graph, Onto)
         IN  /\ Len(graph'.commits) = Len(graph.commits) + Len(selected)
             /\ SubSeq(graph'.commits, 1, Len(graph.commits)) = graph.commits
             /\ \A i \in DOMAIN selected : selected[i].id \notin BranchReachable(graph')]_vars

\* C10: a successful commit adds exactly one commit, whose single parent
\* is the commit HEAD resolved to before the command and whose depth is
\* that parent's depth + 1; with HEAD attached the current branch's tip
\* becomes the new commit.
C10_Commit ==
    [][Succeeded("commit") =>
         /\ Len(graph'.commits) = Len(graph.commits) + 1
         /\ SubSeq(graph'.commits, 1, Len(graph.commits)) = graph.commits
         /\ LET new == graph'.commits[Len(graph'.commits)]
            IN  /\ new.id \notin CommitIds(graph)
                /\ new.parentIds = <<HeadCommitId(graph)>>
                /\ new.depth = GetCommit(graph, HeadCommitId(graph)).depth + 1
                /\ ~graph.isDetached =>
                     /\ Tip(graph', graph.headRef) = new.id
                     /\ graph'.headRef = graph.headRef
                     /\ ~graph'.isDetached
         /\ Shown'.graph = graph']_vars

\* C11: isAncestor(a, b) is true exactly when a equals b or a is reachable
\* from b over parent edges, all parents of a merge commit included; so
\* isAncestor(x, x) is true for every commit x.
C11_IsAncestorIsReachability ==
    graph # Null =>
        \A b \in CommitIds(graph) :
            \E reachable \in {Ancestors(graph, b)} :
                \A a \in CommitIds(graph) :
                    isAncestor(graph, a, b) <=> (a = b \/ a \in reachable)

\* The graph holds a merge commit whose second parent is not an ancestor of
\* its first parent.
C11_Witness ==
    /\ graph # Null
    /\ \E i \in DOMAIN graph.commits :
          LET c == graph.commits[i]
          IN  /\ Len(c.parentIds) = 2
              /\ c.parentIds[2] \notin Ancestors(graph, c.parentIds[1])
              /\ isAncestor(graph, c.parentIds[2], c.id)

WithinQuotas ==
    /\ gameState.commandsUsed <= puzzle.constraints.maxCommands
    /\ gameState.checkoutsUsed <= puzzle.constraints.maxCheckouts

QuotaStep ==
    ( /\ Typed
      /\ lastCall'.command # "undo"
      /\ \/ gameState.commandsUsed >= puzzle.constraints.maxCommands
         \/ /\ lastCall'.command = "checkout"
            /\ gameState.checkoutsUsed >= puzzle.constraints.maxCheckouts )
    => /\ ~lastCall'.success
       /\ NothingChanged

\* C12: commandsUsed never exceeds maxCommands and checkoutsUsed never exceeds
\* maxCheckouts; a command other than undo issued with commandsUsed >=
\* maxCommands, and a checkout issued with checkoutsUsed >= maxCheckouts, is
\* rejected and the engine, the files and the session are left as they were.
C12_Quotas == [](Playing => WithinQuotas) /\ [][QuotaStep]_vars

CountersMatchHistory ==
    /\ gameState.commandsUsed = Len(gameState.commandHistory)
    /\ gameState.commandsUsed = Len(gameState.undoStack)
    /\ gameState.checkoutsUsed = Checkouts(gameState.commandHistory)

UndoStep ==
    (UndoRequested /\ Playing)
    => /\ Shown'.commandsUsed <= Shown.commandsUsed
       /\ Shown'.checkoutsUsed <= Shown.checkoutsUsed
       /\ lastCall'.success
          => /\ Shown'.commandsUsed = Shown.commandsUsed - 1
             /\ Shown'.checkoutsUsed =
                  IF /\ Shown.commandHistory # <<>>
                     /\ Shown.commandHistory[Len(Shown.commandHistory)].type = "checkout"
                  THEN Shown.checkoutsUsed - 1
                  ELSE Shown.checkoutsUsed

\* C13: commandsUsed equals the length of commandHistory and of the undo
\* stack, and checkoutsUsed equals the number of checkout entries of
\* commandHistory; a successful undo takes exactly one from commandsUsed, one
\* from checkoutsUsed only when the undone command was a checkout, and no undo
\* raises a counter.
C13_Counters == [](Playing => CountersMatchHistory) /\ [][UndoStep]_vars

DetachedStep ==
    \A command \in {"merge", "rebase"} :
        (Ran(command) /\ graph.isDetached)
        => /\ ~lastCall'.success
           /\ NothingChanged

EmptyUndoStep ==
    (UndoRequested /\ Playing /\ Len(gameState.undoStack) = 0)
    => /\ ~lastCall'.success
       /\ NothingChanged

\* C14: merge and rebase issued on a detached HEAD fail for every branch
\* argument and undo on an empty undo stack returns false; each leaves the
\* graph, the files and the session with its counters as they were.
C14_PreconditionFailures == [][DetachedStep /\ EmptyUndoStep]_vars

\* A merge has been refused on a detached HEAD.
C14_Witness ==
    /\ Rendered
    /\ Playing
    /\ graph.isDetached
    /\ lastCall.command = "merge"
    /\ lastCall.args # <<>>
    /\ ~lastCall.success
    /\ lastCall.message = "Cannot merge in detached HEAD state"

DeclaredBranchNames(p) ==
    DOMAIN p.initialGraph.branches \cup {p.files[i].branch : i \in DOMAIN p.files}

\* C16: branch(name) succeeds only for one of the puzzle's declared branch
\* names that does not exist yet, so every branch name of the graph is one of
\* the puzzle's declared names.
C16_OnlyDeclaredBranches ==
    [][Succeeded("branch") =>
         /\ lastCall'.args[1] \in DeclaredBranchNames(puzzle) \ DOMAIN graph.branches
         /\ DOMAIN graph'.branches \subseteq DeclaredBranchNames(puzzle)]_vars

\* The positions, in insertion order, of the commits whose id has target as
\* a prefix.
PrefixMatches(g, target) ==
    {i \in DOMAIN g.commits : StartsWith(g.commits[i].id, target)}

CheckoutStep(target) ==
    ( /\ Ran("checkout")
      /\ lastCall'.args = <<target>>
      /\ ReachesEngine
      /\ gameState.checkoutsUsed < puzzle.constraints.maxCheckouts )
    => IF target \in DOMAIN graph.branches
       THEN /\ lastCall'.success
            /\ graph'.headRef = target /\ ~graph'.isDetached
       ELSE IF target \in CommitIds(graph)
       THEN /\ lastCall'.success
            /\ graph'.headRef = target /\ graph'.isDetached
       ELSE IF PrefixMatches(graph, target) # {}
       THEN /\ lastCall'.success
            /\ graph'.isDetached
            /\ \E i \in PrefixMatches(graph, target) :
                 /\ \A j \in PrefixMatches(graph, target) : i <= j
                 /\ graph'.headRef = graph.commits[i].id
       ELSE /\ ~lastCall'.success
            /\ UNCHANGED graph

\* C17: checkout(target) attaches HEAD to the branch named target when there
\* is one, even if a commit id equals or starts with target; otherwise it
\* detaches HEAD at the commit whose id is target, otherwise at the first
\* commit whose id starts with target; with no match it fails and leaves HEAD
\* where it was.
C17_CheckoutPriority ==
    [][\A target \in CheckoutTargets : CheckoutStep(target)]_vars

\* After a checkout of its name, HEAD is attached to a branch whose name is
\* the id of a commit or a prefix of one.
C17_Witness ==
    /\ Rendered
    /\ Playing
    /\ lastCall.command = "checkout"
    /\ lastCall.success
    /\ ~graph.isDetached
    /\ \/ graph.headRef \in CommitIds(graph)
       \/ Cardinality(PrefixMatches(graph, graph.headRef)) >= 1
    /\ lastCall.args = <<graph.headRef>>

\* C18: on the puzzle of createTestPuzzle no sequence of fewer than parScore
\* successful commands reaches status won.
C18_ParIsShortest ==
    Playing => (gameState.status = "won" => gameState.commandsUsed >= puzzle.parScore)

ScoreAsDocumented ==
    lastCall.returned =>
        /\ lastCall.score =
             IF lastCall.commandsUsed <= lastCall.parScore
             THEN 100 + 20 * (lastCall.parScore - lastCall.commandsUsed)
             ELSE MaxOf(10, 100 - 10 * (lastCall.commandsUsed - lastCall.parScore))
        /\ lastCall.score >= 10

ScoreNeverGrows ==
    (lastCall.returned /\ lastCall'.returned
       /\ lastCall'.parScore = lastCall.parScore
       /\ lastCall'.commandsUsed >= lastCall.commandsUsed)
    => lastCall'.score <= lastCall.score

\* C19: calculateScore(commandsUsed, parScore) is 100 + 20 * (parScore -
\* commandsUsed) when commandsUsed <= parScore and the larger of 10 and
\* 100 - 10 * (commandsUsed - parScore) otherwise; for a fixed parScore it
\* does not increase as commandsUsed grows, and it is never below 10.
C19_Score == [](ScoreAsDocumented) /\ [][ScoreNeverGrows]_vars

\* calculateScore has returned its minimum, 10, for a commandsUsed more than
\* nine over par.
C19_Witness ==
    /\ lastCall.op = "calculateScore"
    /\ lastCall.returned
    /\ lastCall.commandsUsed > lastCall.parScore + 9
    /\ lastCall.score = 10

\* The commits onto's tip already has: the tip and its ancestors.
SharedWith(g, onto) == Ancestors(g, Tip(g, onto))

\* C20: a successful rebase(onto) replays no commit that is onto's tip or an
\* ancestor of it, the root commit included, and creates no commit when the
\* current tip is itself onto's tip or an ancestor of it.
C20_ReplaysOnlyOwnCommits ==
    [][Succeeded("rebase") =>
         LET selected == SelectedForReplay(graph, Onto)
         IN  /\ \A i \in DOMAIN selected : selected[i].id \notin SharedWith(graph, Onto)
             /\ Tip(graph, graph.headRef) \in SharedWith(graph, Onto)
                => graph'.commits = graph.commits]_vars

\* C21: the number of commits in the graph never exceeds the puzzle's
\* maxCommits, taken as at least the number of commits of the initial graph.
C21_CommitQuota ==
    (Rendered /\ Playing) =>
        Len(graph.commits) <= MaxOf(puzzle.constraints.maxCommits,
                                    Len(puzzle.initialGraph.commits))

\* The commits a step has added to the graph.
CreatedCommits ==
    {graph'.commits[i] : i \in (Len(graph.commits) + 1)..Len(graph'.commits)}

\* C22: after a successful commit, merge or rebase, a FileTarget is collected
\* exactly when it was collected before or one of the commits the command
\* created has the target's branch label and depth.
C22_EveryCreatedCommitCollects ==
    [][\A command \in {"commit", "merge", "rebase"} :
         Succeeded(command) =>
            /\ Len(files') = Len(files)
            /\ \A i \in DOMAIN files :
                 files'[i].collected <=>
                    \/ files[i].collected
                    \/ \E c \in CreatedCommits :
                         c.branch = files[i].branch /\ c.depth = files[i].depth]_vars

\* C23: a successful commit on a detached HEAD moves HEAD and no branch tip
\* to the new commit, gives the new commit no branch name as its label,
\* collects no FileTarget and does not win.
C23_DetachedCommit ==
    [][(Succeeded("commit") /\ graph.isDetached) =>
         LET new == graph'.commits[Len(graph'.commits)]
         IN  /\ Len(graph'.commits) = Len(graph.commits) + 1
             /\ graph'.isDetached /\ graph'.headRef = new.id
             /\ graph'.branches = graph.branches
             /\ new.branch \notin DOMAIN graph.branches
             /\ files' = files
             /\ ~lastCall'.gameWon]_vars

\* C24: once the status is won, no executeCommand call and no undo call
\* changes the graph, the files, the counters, commandHistory or the undo
\* stack, and all files stay collected.
C24_WonIsTerminal ==
    [][(/\ Called
        /\ Playing
        /\ lastCall'.op \in {"executeCommand", "undo"}
        /\ gameState.status = "won") =>
         /\ NothingChanged
         /\ allFilesCollected(files')]_vars

RebaseChain ==
    LET onto == Onto
        selected == SelectedForReplay(graph, onto)
        k == Len(selected)
        n == Len(graph.commits)
        new(i) == graph'.commits[n + i]
    IN  k >= 1 =>
          /\ Len(graph'.commits) = n + k
          /\ \A i \in 1..k :
               /\ new(i).id \notin CommitIds(graph)
               /\ new(i).parentIds = <<IF i = 1 THEN Tip(graph, onto) ELSE new(i - 1).id>>
               /\ new(i).message = selected[i].message
               /\ new(i).depth = GetCommit(graph, Tip(graph, onto)).depth + i
          /\ ~graph'.isDetached /\ graph'.headRef = graph.headRef
          /\ Tip(graph', graph.headRef) = new(k).id
          /\ Tip(graph', onto) = Tip(graph, onto)

\* C25: a successful rebase(onto) replaying k >= 1 commits adds k commits,
\* each with the one before it as single parent and the first on onto's tip,
\* with the replayed messages in their order and the i-th at depth (onto tip
\* depth + i); the current branch's tip becomes the last of them, HEAD stays
\* attached to the current branch and onto's tip does not move.
C25_RebaseChain == [][Succeeded("rebase") => RebaseChain]_vars

\* The step is the save effect storing a playing session.
Saved ==
    /\ "save" \in effects
    /\ effects' = {}
    /\ puzzle # Null
    /\ IF gameState = Null THEN FALSE ELSE gameState.status = "playing"

\* The session a mount restores from the stored item is the session gs: the
\* graph and the files of its engine, and its GameState with graph, files,
\* counters, commandHistory and undo stack.
Restores(item, gs) ==
    \E restored \in {loadSavedGame(getFromStorage(item))} :
        /\ Len(restored) = 1
        /\ restored[1].graph = gs.graph
        /\ restored[1].files = gs.files
        /\ restored[1].gameState = gs

\* The step is a successful undo, the first call after a new mount.
UndoneAfterMount ==
    /\ Undone
    /\ lastCall.op = "useGame"

\* C26: the item the save effect stores of a playing session is one from
\* which the load effect of a mount restores the graph, files, counters,
\* commandHistory and undo stack the session had when it was saved, and an
\* undo performed right after the restore gives a graph with all the
\* commits and branches of the state before the last command.
C26_RestoreKeepsSession ==
    [][/\ Saved => Restores(storage', gameState)
       /\ UndoneAfterMount => WellFormed(graph')]_vars

CommitsKept == SubSeq(graph'.commits, 1, Len(graph.commits)) = graph.commits

TipsKept == \A b \in DOMAIN graph.branches :
                b \in DOMAIN graph'.branches /\ Tip(graph', b) = Tip(graph, b)

\* C27: commit, branch, checkout, merge and rebase keep every existing commit
\* as it is; branch and checkout add no commit and change no collected flag;
\* branch leaves HEAD and every existing branch tip where they were, and
\* checkout leaves every branch tip where it was.
C27_Frame ==
    [][/\ \A command \in {"commit", "branch", "checkout", "merge", "rebase"} :
            Ran(command) => CommitsKept
       /\ \A command \in {"branch", "checkout"} :
            Ran(command) => graph'.commits = graph.commits /\ files' = files
       /\ Ran("branch") => /\ graph'.headRef = graph.headRef
                           /\ graph'.isDetached = graph.isDetached
                           /\ TipsKept
       /\ Ran("checkout") => graph'.branches = graph.branches]_vars

\* The graph and the puzzle a session of the mock backend starts with: the
\* copies startGame makes, and mockGraph and mockPuzzle themselves before the
\* first startGame.
MockStart ==
    IF mock.started
    THEN [graph |-> cloneGraph(mock.mockGraph), puzzle |-> mock.mockPuzzle]
    ELSE [graph |-> mockGraph, puzzle |-> mockPuzzle]

\* With every command undone the mock backend is back at its start.
MockAllUndone ==
    mock.state.commandHistory = <<>> =>
        /\ mock.state.graph = MockStart.graph
        /\ mock.state.puzzle = MockStart.puzzle
        /\ mock.state.collectedFiles = <<>>
        /\ mock.state.checkoutCount = 0

\* A call of sendCommand that returns an error leaves the count and the
\* history as they were.
MockErrorStep ==
    (lastCall'.op = "sendCommand" /\ lastCall'.error # NoArg)
    => /\ mock'.state.commandCount = mock.state.commandCount
       /\ mock'.state.commandHistory = mock.state.commandHistory

\* C28: in the mock backend undo restores the graph, the collected files and
\* the checkout counter of the state before the most recent command, so with
\* every command undone they are those of the start; and a command answered
\* with an error leaves commandCount and commandHistory as they were.
C28_MockUndoAndErrors == [](MockAllUndone) /\ [][MockErrorStep]_vars

\* C29: every FileTarget whose collected flag is true has, in the current
\* graph, a commit with the target's branch label and depth.
C29_CollectedHasCommit ==
    graph # Null =>
        \A i \in DOMAIN files :
            files[i].collected =>
                \E j \in DOMAIN graph.commits :
                    /\ graph.commits[j].branch = files[i].branch
                    /\ graph.commits[j].depth = files[i].depth

\* Entry i of the undo stack of the session gs is the state in which
\* command i of its history was run: running that command on it, with some
\* hashes drawn, gives the next entry, and for the last command the graph
\* and the files of the session.
UndoStackMatchesHistory(gs) ==
    \A i \in DOMAIN gs.commandHistory :
        /\ i \in DOMAIN gs.undoStack
        /\ \E before \in {gs.undoStack[i]} :
           \E after \in {IF i < Len(gs.undoStack) THEN gs.undoStack[i + 1]
                         ELSE [graph |-> gs.graph, files |-> gs.files]} :
           \E command \in {gs.commandHistory[i]} :
           \E random \in RandomRuns(before.graph, <<>>,
                                    MaxOf(1, Len(after.graph.commits)
                                             - Len(before.graph.commits)),
                                    OddDraws) :
           \E result \in {engineExecuteCommand(before.graph, before.files,
                                               puzzle.constraints, command.type,
                                               command.args, random)} :
              /\ result.success
              /\ result.graph = after.graph
              /\ result.files = after.files

\* The one call made since the last render was a call of executeCommand
\* made on a consistent session: the engine and the queue are as that call
\* leaves them.
OneExecuteCommandSinceRender ==
    /\ lastCall.op = "executeCommand"
    /\ \E random \in RandomRuns(gameState.graph, <<>>,
                                Draws(gameState.graph, lastCall.commandString),
                                OddDraws) :
       \E r \in {executeCommand(gameState, puzzle, gameState.graph, gameState.files,
                                lastCall.commandString, random)} :
          /\ graph = r.graph
          /\ files = r.files
          /\ pending = r.updates

\* The one call made since the last render was a call of undo made on a
\* consistent session.
OneUndoSinceRender ==
    /\ lastCall.op = "undo"
    /\ \E u \in {undo(gameState, gameState.graph, gameState.files)} :
          /\ graph = u.graph
          /\ files = u.files
          /\ pending = u.updates

\* The step is the second of two calls of executeCommand, or of two calls
\* of undo, made on the consistent session of one render.
SecondOfPair ==
    /\ Called
    /\ Playing
    /\ gameState.status = "playing"
    /\ pending # <<>>
    /\ UndoStackMatchesHistory(gameState)
    /\ gameState.commandsUsed <= puzzle.constraints.maxCommands
    /\ \/ lastCall'.op = "executeCommand" /\ OneExecuteCommandSinceRender
       \/ lastCall'.op = "undo" /\ OneUndoSinceRender

\* C30: after two executeCommand calls or two undo calls of one render the
\* session the host renders next is consistent: the engine's graph equals
\* GameState.graph, every undo-stack entry is the state that preceded the
\* corresponding command of commandHistory, and commandsUsed has not passed
\* maxCommands.
C30_PairsStayConsistent ==
    [][SecondOfPair =>
          /\ graph' = Shown'.graph
          /\ UndoStackMatchesHistory(Shown')
          /\ Shown'.commandsUsed <= puzzle.constraints.maxCommands]_vars

====
